---- MODULE Spec2Model ----
(***************************************************************************)
(* Model of the checkpointed crawl orchestrator of scraper.py:             *)
(* scrape_user / scrape_question, the progress ledger (progress.json),     *)
(* the reconciliation of the ledger against the artifacts on disk          *)
(* (_scan_done_urls_from_disk) and the pacing of the crawl loop.           *)
(*                                                                         *)
(* A file write is one step: it either replaces the whole file or raises   *)
(* and leaves the file as it was.  A process crash can happen between any  *)
(* two steps of a run.                                                     *)
(*                                                                         *)
(* The paginated comment harvest (extract_comments) and the link discovery *)
(* (_scroll_and_collect_links, collect_question_answer_links) are          *)
(* components with variables of their own and their own specifications,    *)
(* SpecComments and SpecDiscovery.  In each specification the variables of *)
(* the other components keep their initial values.                         *)
(*                                                                         *)
(* SpecArtifact follows one item through extraction, comment fetch and     *)
(* save_content_as_markdown, with the write of index.md as the operating   *)
(* system performs it: the file is created or truncated when it is opened  *)
(* and filled block by block, and a write that raises leaves what was      *)
(* written so far.                                                         *)
(*                                                                         *)
(* SpecJobs has the jobs of the web interface: every click starts a thread *)
(* that runs one scrape function in an event loop of its own, and the      *)
(* threads share the module globals MIN_DELAY and MAX_DELAY.               *)
(*                                                                         *)
(* SpecNode applies the construction of one comment node to the items the  *)
(* comment API can deliver, as JSON values.                                *)
(*                                                                         *)
(* SpecSession follows the browser context of one call of login,          *)
(* scrape_user, scrape_question or scrape_single_answer from its launch to *)
(* the end of the async with block.  SpecTui has the handlers and the      *)
(* worker threads of the terminal interface (tui.py), SpecStream the       *)
(* threads, writers, queues and generators of the log streams of the web   *)
(* interface (webui.py), and SpecMerge applies merge_md.merge to the       *)
(* directories it can be called on.                                        *)
(***************************************************************************)
EXTENDS Integers, Sequences, FiniteSets, TLC

VARIABLES
  pc,              \* position of the run: see Stopped / InRun
  entry,           \* "scrape_user" | "scrape_question" | "none"
  runs,            \* number of runs started on this output directory
  session,         \* browser context: "none" | "open" | "lost"
  progress,        \* progress.json: whether it exists and the set under its "done" key
  disk,            \* the index.md documents under answers/ and articles/
  all_urls,        \* the work list of the run: sequence of [url, type]
  idx,             \* enumerate(..., 1) position of the crawl loop
  done_urls,       \* the in-memory done set
  success_count,
  fail_count,
  attempted,       \* history: work-list positions on which extraction was invoked
  trace,           \* history: "skip" | "attempt" | "penalty" | "delay" events of the loop
  failLog,         \* history: one record per execution of the except branch
  doneAtReconcile, \* history: done_urls right after the reconciliation step
  hadProgress,     \* history: progress.json existed when the run reconciled
  provAtStart,     \* history: source URLs of the documents on disk when the run reconciled
  orphan,          \* history: URLs whose document was written when the process died
                   \*          before the ledger write for them
  links_file,      \* links.json: the list it holds, <<>> while it does not exist
  \* ---- extract_comments ----
  cpc,             \* position inside extract_comments: see CommentsInit and the actions
  offset,          \* offset of the next root page
  child_offset,    \* offset of the next child page of the current root
  data,            \* data.get("data") of the root page being iterated
  page_end,        \* paging.is_end of that root page: "true" | "false" | "absent"
  pos,             \* position of the for loop in data
  root,            \* the root node being built
  all_comments,    \* the tree built so far
  requests,        \* history: one record per call of _fetch_comment_page
  nextId,          \* the API: identity of the next comment it delivers
  \* ---- _scroll_and_collect_links / collect_question_answer_links ----
  dpc,             \* position of the discovery pass: "idle" | "loop" | "returned" | "raised"
  listing,         \* "user_answers" | "user_articles" | "question" | "none"
  max_answers,     \* the target capacity: see Capacities
  collected_links,
  no_new_count,
  prev_scroll_height,
  result,          \* the returned list
  seen_links,      \* history: every link a step has kept so far
  last_step,       \* history: what the last step of the loop read and did
  signals_fired,   \* history: some step saw the end marker or an unchanged height
  \* ---- one item: extract_answer, extract_comments, save_content_as_markdown ----
  apc,             \* "idle" | "extract" | "comments" | "save" | "saved" | "failed"
  with_comments,
  download_img,
  answer_info,     \* what extract_answer returned: see NoInfo
  comments,        \* whether extract_comments has returned
  folder,          \* the folder of the item in the output store: see NoFolder
  \* ---- the jobs of the web interface ----
  jpc,             \* per job: "idle" | "started" | "request" | "pause" | "finished"
  job_window,      \* per job: the delay_min, delay_max it was started with
  left,            \* per job: requests it still has to make
  MIN_DELAY,       \* the module globals of scraper.py
  MAX_DELAY,
  waits,           \* history, per job: the delays of its last pause, in grains
  \* ---- the construction of one comment node ----
  npc,             \* "idle" | "given" | "built" | "raised"
  raw_comment,     \* the item of data["data"] the for loop holds
  built_node,      \* the node built from it
  \* ---- the browser context of one entry point ----
  spc,             \* "idle" | "launch" | "init_script" | "body" | "loop" | "finally" | "exit_pw" | "returned"
  sfn,             \* the entry point that was called
  context,         \* the context of the call: its state and the calls of close()
  body_steps,      \* polls of login / items of the loop gone through
  exit_kind,       \* how the call left its body
  \* ---- the terminal interface ----
  _running,        \* ZhiZhuApp._running
  _current_key,    \* ZhiZhuApp._current_key
  active_panel,    \* the key of the panel mounted as #active_panel
  workers,         \* the worker threads started so far: position, key, old_stdout, outcome
  sys_stdout,      \* sys.stdout of the process: the terminal or the writer of a worker
  last_event,      \* history: the handler or thread that took the last step
  app_alive,       \* the application still takes events
  \* ---- the log streams of the web interface ----
  wpc,             \* per job, the position of its thread in _run_in_thread
  web_stdout,      \* sys.stdout of the server process
  saved_stdout,    \* per job: old_stdout of its thread
  wbuf,            \* per job: _buf of its _QueueWriter
  queues,          \* per job: every item put on its queue so far
  printed,         \* history, per job: print calls begun
  fn_end,          \* per job: how fn ended
  gpos,            \* per job: the position of the generator _stream_logs
  taken,           \* per job: items the generator has taken from the queue
  log_lines,       \* per job: log_lines of the generator
  overlapped,      \* history, per job: another job was alive while it was
  \* ---- merge_md.merge ----
  mpc,             \* "idle" | "called" | "merged" | "exited"
  source_dir,      \* the source directory: whether it exists, and its .md files
  sort_by,         \* "date" | "name"
  merged_parts,    \* the parts written to the output file after the heading
  reported         \* the number of files the heading and the last line report

vars == <<pc, entry, runs, session, progress, disk, all_urls, idx, done_urls,
          success_count, fail_count, attempted, trace, failLog,
          doneAtReconcile, hadProgress, provAtStart, orphan, links_file>>

commentVars == <<cpc, offset, child_offset, data, page_end, pos, root,
                 all_comments, requests, nextId>>

discoveryVars == <<dpc, listing, max_answers, collected_links, no_new_count,
                   prev_scroll_height, result, seen_links, last_step, signals_fired>>

artifactVars == <<apc, with_comments, download_img, answer_info, comments, folder>>

jobVars == <<jpc, job_window, left, MIN_DELAY, MAX_DELAY, waits>>

nodeVars == <<npc, raw_comment, built_node>>

sessionVars == <<spc, sfn, context, body_steps, exit_kind>>

\* the variables of the components of the entry points and the interfaces
tuiVars == <<_running, _current_key, active_panel, workers, sys_stdout,
             last_event, app_alive>>

streamVars == <<wpc, web_stdout, saved_stdout, wbuf, queues, printed,
                fn_end, gpos, taken, log_lines, overlapped>>

mergeVars == <<mpc, source_dir, sort_by, merged_parts, reported>>

lateVars == <<sessionVars, tuiVars, streamVars, mergeVars>>

\* the variables of the components other than the crawl orchestrator
offCrawl == <<commentVars, discoveryVars, artifactVars, jobVars, nodeVars, lateVars>>

\* the variables of the components other than the comment harvest
offComments == <<vars, discoveryVars, artifactVars, jobVars, nodeVars, lateVars>>

\* the variables of the components other than the discovery pass
offDiscovery == <<vars, commentVars, artifactVars, jobVars, nodeVars, lateVars>>

\* the variables of the components other than the single item
offArtifact == <<vars, commentVars, discoveryVars, jobVars, nodeVars, lateVars>>

\* the variables of the components other than the jobs of the web interface
offJobs == <<vars, commentVars, discoveryVars, artifactVars, nodeVars, lateVars>>

\* the variables of the components other than the comment node
offNode == <<vars, commentVars, discoveryVars, artifactVars, jobVars, lateVars>>

\* the variables of the components before the entry points and the interfaces
earlyVars == <<vars, commentVars, discoveryVars, artifactVars, jobVars, nodeVars>>

\* the variables of the components other than the browser context
offSession == <<earlyVars, tuiVars, streamVars, mergeVars>>

\* the variables of the components other than the terminal interface
offTui == <<earlyVars, sessionVars, streamVars, mergeVars>>

\* the variables of the components other than the log streams
offStream == <<earlyVars, sessionVars, tuiVars, mergeVars>>

\* the variables of the components other than the merge
offMerge == <<earlyVars, sessionVars, tuiVars, streamVars>>

-----------------------------------------------------------------------------
(* Bounds *)

MaxRuns == 2

\* longest work list a discovery pass returns
MaxItems == 3

-----------------------------------------------------------------------------
(* Program constants *)

\* MIN_DELAY = 5, MAX_DELAY = 10 at import
DefaultMinDelay == 5
DefaultMaxDelay == 10

\* extra_wait = 30 + random.random() * 30
PenaltyBase == 30
PenaltySpan == 30

\* md_file.read_text(...)[:500]
ScanLimit == 500

\* len(name) > 120 in sanitize_filename
MaxNameLen == 120

\* characters of the header that are not title, author or url, up to and
\* including the "]" that closes the provenance link:
\* "# " + "\n\n" + "> **类型**: " + "回答" + "  \n" + "> **作者**: " + "  \n" + "> **来源**: [" + "]"
HeaderFixedLen == 44

\* "[YYYY-MM-DD] " + " - " around title and author in the folder name
NameFixedLen == 16

-----------------------------------------------------------------------------
(* The site: what each URL serves.  URLs are numbered in lexicographic     *)
(* order.  1 is an answer by a named author; 2 and 3 are two anonymous     *)
(* answers to the same question published the same day; 4 is an article    *)
(* with a very long title.                                                 *)

NoFile == [exists |-> FALSE, done |-> {}]
\* variant: the ledger is written without its entries
EmptyFile(urls) == [exists |-> TRUE, done |-> {}]
\* json.dumps({"done": list(done_urls)}) in progress.json
File(urls) == [exists |-> TRUE, done |-> urls]

Page == <<
  [type |-> "answer",  title |-> "q1",   titleLen |-> 12,  author |-> "alice",
   authorLen |-> 5, urlLen |-> 58],
  [type |-> "answer",  title |-> "q1",   titleLen |-> 12,  author |-> "anonymous",
   authorLen |-> 4, urlLen |-> 58],
  [type |-> "answer",  title |-> "q1",   titleLen |-> 12,  author |-> "anonymous",
   authorLen |-> 4, urlLen |-> 58],
  [type |-> "article", title |-> "long", titleLen |-> 420, author |-> "alice",
   authorLen |-> 5, urlLen |-> 38] >>

Urls == DOMAIN Page
AnswerUrls == {u \in Urls : Page[u].type = "answer"}
ArticleUrls == {u \in Urls : Page[u].type = "article"}

-----------------------------------------------------------------------------
(* Pure helpers *)

RECURSIVE SortedSeq(_)
\* sorted(collected_links): the elements of a set of URLs in increasing order
SortedSeq(S) ==
  IF S = {} THEN <<>>
  ELSE LET m == CHOOSE x \in S : \A y \in S : x <= y
       IN <<m>> \o SortedSeq(S \ {m})

\* [(url, kind) for url in urls]
Tagged(urls, kind) == [i \in DOMAIN urls |-> [url |-> urls[i], type |-> kind]]

\* extract_answer / extract_article: the info dictionary of a page
ExtractInfo(item) ==
  [title |-> Page[item.url].title, titleLen |-> Page[item.url].titleLen,
   author |-> Page[item.url].author, authorLen |-> Page[item.url].authorLen,
   type |-> item.type, url |-> item.url, urlLen |-> Page[item.url].urlLen]

\* sanitize_filename(f"[{date}] {title} - {author}"): a name longer than 120
\* characters is cut, which drops the author (and the tail of the title)
sanitize_filename(info) ==
  IF NameFixedLen + info.titleLen + info.authorLen > MaxNameLen
  THEN <<info.title, "">>
  ELSE <<info.title, info.author>>

\* output_dir / ("answers" | "articles") / folder_name / "index.md"
ArtifactPath(info) ==
  <<IF info.type = "answer" THEN "answers" ELSE "articles", sanitize_filename(info)>>

\* the document save_content_as_markdown writes: its path, the URL of its
\* provenance line and the offset at which the provenance link closes
Document(info) ==
  [path |-> ArtifactPath(info), url |-> info.url,
   provEnd |-> HeaderFixedLen + info.titleLen + info.authorLen + info.urlLen]

\* md_path.write_text(...): the document replaces whatever is at its path
WriteDocument(d, doc) == {x \in d : x.path # doc.path} \cup {doc}

\* _scan_done_urls_from_disk: the pattern must match inside the first 500 characters
_scan_done_urls_from_disk(d) == {x.url : x \in {y \in d : y.provEnd <= ScanLimit}}

\* progress_file.exists() / json.loads(...).get("done", [])
LoadProgress(file) == IF file.exists THEN file.done ELSE {}

\* variant: done_urls = disk_urls (assignment in place of the union)
ReconciledMut(loaded, disk_urls) ==
  IF disk_urls \ loaded # {} THEN disk_urls ELSE loaded
\* variant: the scan of the disk is ignored
ReconciledLoadedOnly(loaded, disk_urls) == loaded
\* if disk_urls - done_urls: done_urls |= disk_urls
Reconciled(loaded, disk_urls) ==
  IF disk_urls \ loaded # {} THEN loaded \cup disk_urls ELSE loaded

\* variant: the done set is replaced by the new URL
ReplaceDone(done, url) == {url}
\* done_urls.add(url)
AddDone(done, url) == done \cup {url}

\* variant: the done test is missing
ShouldSkipMut(url, done) == FALSE
\* if url in done_urls: ... continue
ShouldSkip(url, done) == url \in done

\* variant: the first failure ends the batch
AfterFailureAbort(i, total) == total + 1
\* variant: a failed item is attempted again
AfterFailureRetry(i, total) == i
\* the loop goes on with the next item after the except branch
AfterFailure(i, total) == i + 1

\* str(e), by the two substrings the except branch looks for: code is
\* "40362" in str(e), word is "反爬" in str(e)
Messages == [code : BOOLEAN, word : BOOLEAN]

\* raise Exception(f"触发知乎反爬 (40362): {url}")
BlockSignalMessage == [code |-> TRUE, word |-> TRUE]

\* if "40362" in str(e) or "反爬" in str(e)
IsBlockedMessage(msg) == msg.code \/ msg.word

\* if idx < total: delay
PaceAfter(i, total) == IF i < total THEN <<"delay">> ELSE <<>>

-----------------------------------------------------------------------------
(* States *)

Stopped == {"idle", "no_session", "discovery_failed", "nothing_found",
            "manifest_failed",
            "reconcile_failed", "finished", "crashed"}
InLoop == {"loop", "save", "mark"}

Total == Len(all_urls)
Cur == all_urls[idx]

\* no comment node: the value of root outside the for loop
NoRoot == [id |-> 0, child_comments |-> <<>>]

\* extract_comments has not been called
CommentsIdle ==
  /\ cpc = "idle"
  /\ offset = 0
  /\ child_offset = 0
  /\ data = <<>>
  /\ page_end = "absent"
  /\ pos = 0
  /\ root = NoRoot
  /\ all_comments = <<>>
  /\ requests = <<>>
  /\ nextId = 1

\* max_answers = None
NoCapacity == [given |-> FALSE, n |-> 0]

\* what step holds before the first step of a pass
NoStep == [kept |-> 0, known_only |-> FALSE, new_count |-> 0,
           incremented |-> FALSE, end_marker |-> FALSE, height_same |-> FALSE,
           stopped_by |-> "none", element_failed |-> FALSE, others |-> {}]

\* no index.md: nothing written of a text of no blocks
NoDocument == [written |-> 0, of |-> 0]

\* the folder of the item does not exist
NoFolder == [exists |-> FALSE, images |-> 0, document |-> NoDocument]

\* extract_answer has not returned
NoInfo == [blocks |-> 0, images |-> 0]

\* no item is being processed and the output store is empty
ArtifactIdle ==
  /\ apc = "idle"
  /\ with_comments = FALSE
  /\ download_img = FALSE
  /\ answer_info = NoInfo
  /\ comments = FALSE
  /\ folder = NoFolder

\* JSON null, Python None
Null == [t |-> "null"]

\* no node was built
NoNode == [author |-> Null, content |-> Null, has_children |-> FALSE]

\* the for loop over data["data"] has not been entered
NodeIdle ==
  /\ npc = "idle"
  /\ raw_comment = Null
  /\ built_node = NoNode

\* the event listeners of the web interface that start a crawl
Jobs == {"scrape_user", "scrape_question"}

\* a job that was not started has no window
NoWindow == [min |-> 0, max |-> 0]

\* no pause yet: no base delay and no penalty delay drawn
NoWait == [base |-> {}, penalty |-> {}]

\* the web interface is up, scraper.py is imported, no job was started
JobsIdle ==
  /\ jpc = [j \in Jobs |-> "idle"]
  /\ job_window = [j \in Jobs |-> NoWindow]
  /\ left = [j \in Jobs |-> 0]
  /\ MIN_DELAY = DefaultMinDelay
  /\ MAX_DELAY = DefaultMaxDelay
  /\ waits = [j \in Jobs |-> NoWait]

\* no discovery pass has been started
DiscoveryIdle ==
  /\ dpc = "idle"
  /\ listing = "none"
  /\ max_answers = NoCapacity
  /\ collected_links = {}
  /\ no_new_count = 0
  /\ prev_scroll_height = 0
  /\ result = <<>>
  /\ seen_links = {}
  /\ last_step = NoStep
  /\ signals_fired = FALSE

\* no context before launch_persistent_context has returned
NoContext == [state |-> "none", close_calls |-> 0]

SessionIdle ==
  /\ spc = "idle"
  /\ sfn = "none"
  /\ context = NoContext
  /\ body_steps = 0
  /\ exit_kind = "none"

\* sys.stdout as the interface found it, and the _TUIWriter of a worker
Terminal == [kind |-> "terminal", of |-> 0]
Writer(w) == [kind |-> "writer", of |-> w]
\* old_stdout before it is assigned
Unset == [kind |-> "unset", of |-> 0]

\* ZhiZhuApp.__init__ and compose: the login panel, no task
TuiIdle ==
  /\ _running = FALSE
  /\ _current_key = "login"
  /\ active_panel = "login"
  /\ workers = <<>>
  /\ sys_stdout = Terminal
  /\ last_event = "none"
  /\ app_alive = TRUE

\* the tabs of the web interface whose jobs are followed
Tabs == {"scrape_user", "merge"}

\* sys.stdout as the server found it, and the writer of a job
OriginalStdout == [kind |-> "original", of |-> "none"]
_QueueWriter(j) == [kind |-> "writer", of |-> j]
\* a local that has not been assigned
NoStream == [kind |-> "unset", of |-> "none"]

\* the server before the first click
StreamIdle ==
  /\ wpc = [j \in Tabs |-> "idle"]
  /\ web_stdout = OriginalStdout
  /\ saved_stdout = [j \in Tabs |-> NoStream]
  /\ wbuf = [j \in Tabs |-> <<>>]
  /\ queues = [j \in Tabs |-> <<>>]
  /\ printed = [j \in Tabs |-> 0]
  /\ fn_end = [j \in Tabs |-> "none"]
  /\ gpos = [j \in Tabs |-> "idle"]
  /\ taken = [j \in Tabs |-> 0]
  /\ log_lines = [j \in Tabs |-> <<>>]
  /\ overlapped = [j \in Tabs |-> FALSE]

\* a directory that does not exist
NoDirectory == [exists |-> FALSE, files |-> {}]

\* before merge is called
MergeIdle ==
  /\ mpc = "idle"
  /\ source_dir = NoDirectory
  /\ sort_by = "date"
  /\ merged_parts = <<>>
  /\ reported = 0

Init ==
  /\ MergeIdle
  /\ SessionIdle
  /\ StreamIdle
  /\ TuiIdle
  /\ CommentsIdle
  /\ DiscoveryIdle
  /\ ArtifactIdle
  /\ JobsIdle
  /\ NodeIdle
  /\ pc = "idle"
  /\ entry = "none"
  /\ runs = 0
  /\ session = "none"
  /\ progress = NoFile
  /\ disk = {}
  /\ all_urls = <<>>
  /\ idx = 0
  /\ done_urls = {}
  /\ success_count = 0
  /\ fail_count = 0
  /\ attempted = <<>>
  /\ trace = <<>>
  /\ failLog = <<>>
  /\ doneAtReconcile = {}
  /\ hadProgress = FALSE
  /\ provAtStart = {}
  /\ orphan = {}
  /\ links_file = <<>>

\* the state of a freshly called scrape_user / scrape_question
EnterRun(name) ==
  /\ pc \in Stopped
  /\ runs < MaxRuns
  /\ runs' = runs + 1
  /\ entry' = name
  /\ idx' = 0
  /\ done_urls' = {}
  /\ success_count' = 0
  /\ fail_count' = 0
  /\ attempted' = <<>>
  /\ trace' = <<>>
  /\ failLog' = <<>>
  /\ doneAtReconcile' = {}
  /\ hadProgress' = FALSE
  /\ provAtStart' = {}
  /\ UNCHANGED <<progress, disk, orphan>>
  /\ UNCHANGED offCrawl

\* variant: the manifest lists the items in reverse
ReversedLinks(list) == [i \in DOMAIN list |-> list[Len(list) + 1 - i]]
\* links_data = [{"url": url, "type": t} for url, t in all_urls]
links_data(list) == [i \in DOMAIN list |-> [url |-> list[i].url, type |-> list[i].type]]

\* variant: links.json is written before the work list is looked at
DiscoveredWritesFirst(list) ==
  /\ all_urls' = list
  /\ links_file' = links_data(list)
  /\ IF list = <<>>
     THEN pc' = "nothing_found" /\ session' = "none"
     ELSE pc' = "reconcile" /\ session' = "open"

\* what follows the discovery of a work list: an empty list returns, any
\* other is written to links.json before the progress is looked at
Discovered(list) ==
  /\ all_urls' = list
  /\ IF list = <<>>
     THEN pc' = "nothing_found" /\ session' = "none" /\ UNCHANGED links_file
     ELSE /\ links_file' = links_data(list)
          /\ pc' = "reconcile"
          /\ session' = "open"

\* a work list was discovered and links_file.write_text raises outside the
\* per-item try: finally closes the context
ManifestFails ==
  /\ pc' = "manifest_failed"
  /\ session' = "none"
  /\ all_urls' = <<>>
  /\ UNCHANGED links_file

\* create_browser_context raises: nothing was opened, the failure propagates
SessionNotAcquired ==
  /\ pc' = "no_session"
  /\ session' = "none"
  /\ all_urls' = <<>>
  /\ UNCHANGED links_file

\* page.goto of the listing page raises: finally closes the context
DiscoveryFails ==
  /\ pc' = "discovery_failed"
  /\ session' = "none"
  /\ all_urls' = <<>>
  /\ UNCHANGED links_file

scrape_user ==
  /\ EnterRun("scrape_user")
  /\ \/ SessionNotAcquired
     \/ DiscoveryFails
     \/ ManifestFails
     \/ \E A \in SUBSET AnswerUrls, P \in SUBSET ArticleUrls :
          /\ Cardinality(A) + Cardinality(P) <= MaxItems
          /\ Discovered(Tagged(SortedSeq(A), "answer") \o Tagged(SortedSeq(P), "article"))

scrape_question ==
  /\ EnterRun("scrape_question")
  /\ \/ SessionNotAcquired
     \/ DiscoveryFails
     \/ ManifestFails
     \/ \E A \in SUBSET AnswerUrls :
          /\ Cardinality(A) <= MaxItems
          /\ Discovered(Tagged(SortedSeq(A), "answer"))

\* the check of the earlier progress (断点续传): load, scan, merge, write back
Reconcile ==
  /\ pc = "reconcile"
  /\ LET loaded == LoadProgress(progress)
         disk_urls == _scan_done_urls_from_disk(disk)
         merged == Reconciled(loaded, disk_urls)
     IN /\ hadProgress' = progress.exists
        /\ provAtStart' = {x.url : x \in disk}
        /\ \/ /\ merged = {}
              /\ progress' = progress
              /\ pc' = "loop"
              /\ session' = session
           \/ /\ merged # {}
              /\ progress' = File(merged)
              /\ pc' = "loop"
              /\ session' = session
           \/ \* progress_file.write_text raises outside the per-item try
              /\ merged # {}
              /\ progress' = progress
              /\ pc' = "reconcile_failed"
              /\ session' = "none"
        /\ done_urls' = merged
        /\ doneAtReconcile' = merged
        /\ idx' = 1
  /\ UNCHANGED <<links_file, entry, runs, disk, all_urls, success_count, fail_count,
                 attempted, trace, failLog, orphan>>
  /\ UNCHANGED offCrawl

\* if url in done_urls: success_count += 1; continue
SkipItem ==
  /\ pc = "loop"
  /\ idx <= Total
  /\ ShouldSkip(Cur.url, done_urls)
  /\ success_count' = success_count + 1
  /\ trace' = Append(trace, "skip")
  /\ idx' = idx + 1
  /\ UNCHANGED <<links_file, pc, entry, runs, session, progress, disk, all_urls, done_urls,
                 fail_count, attempted, failLog, doneAtReconcile, hadProgress,
                 provAtStart, orphan>>
  /\ UNCHANGED offCrawl

\* except Exception as e: count the failure, wait longer when the message
\* holds 40362 or 反爬, then the delay between requests
Fail(cause, msg, events, n) ==
  /\ fail_count' = fail_count + 1
  /\ failLog' = Append(failLog, [idx |-> idx, cause |-> cause,
                                 penalty |-> IsBlockedMessage(msg),
                                 attempts |-> n])
  /\ trace' = events
              \o (IF IsBlockedMessage(msg) THEN <<"penalty">> ELSE <<>>)
              \o PaceAfter(idx, Total)
  /\ idx' = AfterFailure(idx, Total)
  /\ pc' = "loop"

\* info = await extract_answer(page, url) / extract_article(page, url)
Extract ==
  /\ pc = "loop"
  /\ idx <= Total
  /\ ~ShouldSkip(Cur.url, done_urls)
  /\ attempted' = Append(attempted, idx)
  /\ \/ \* the page is extracted
        /\ session = "open"
        /\ pc' = "save"
        /\ trace' = Append(trace, "attempt")
        /\ UNCHANGED <<session, idx, fail_count, failLog>>
     \/ \* the body text carries 40362: raise Exception("触发知乎反爬 (40362): ...")
        /\ session = "open"
        /\ Fail("blocked", BlockSignalMessage, Append(trace, "attempt"), Len(attempted) + 1)
        /\ UNCHANGED session
     \/ \* a timeout or another error of the page; its message quotes the URL,
        \* which may hold the digits 40362
        /\ session = "open"
        /\ \E msg \in Messages : Fail("error", msg, Append(trace, "attempt"), Len(attempted) + 1)
        /\ UNCHANGED session
     \/ \* the browser context is gone: every page operation raises from now on
        /\ \E msg \in Messages : Fail("session", msg, Append(trace, "attempt"), Len(attempted) + 1)
        /\ session' = "lost"
  /\ UNCHANGED <<links_file, entry, runs, progress, disk, all_urls, done_urls, success_count,
                 doneAtReconcile, hadProgress, provAtStart, orphan>>
  /\ UNCHANGED offCrawl

\* md_path = await save_content_as_markdown(info, output_dir, download_img)
Save ==
  /\ pc = "save"
  /\ \/ /\ disk' = WriteDocument(disk, Document(ExtractInfo(Cur)))
        /\ pc' = "mark"
        /\ UNCHANGED <<idx, fail_count, failLog, trace>>
     \/ \* mkdir or write_text raises; the message quotes the path, which
        \* holds the title and the output directory
        /\ \E msg \in Messages : Fail("save", msg, trace, Len(attempted))
        /\ UNCHANGED disk
  /\ UNCHANGED <<links_file, entry, runs, session, progress, all_urls, done_urls,
                 success_count, attempted, doneAtReconcile, hadProgress,
                 provAtStart, orphan>>
  /\ UNCHANGED offCrawl

\* success_count += 1; done_urls.add(url); progress_file.write_text(...)
MarkDone ==
  /\ pc = "mark"
  /\ success_count' = success_count + 1
  /\ done_urls' = AddDone(done_urls, Cur.url)
  /\ \/ /\ progress' = File(done_urls')
        /\ trace' = trace \o PaceAfter(idx, Total)
        /\ idx' = idx + 1
        /\ pc' = "loop"
        /\ UNCHANGED <<fail_count, failLog>>
     \/ \* the ledger write raises inside the try
        /\ \E msg \in Messages : Fail("ledger", msg, trace, Len(attempted))
        /\ UNCHANGED progress
  /\ UNCHANGED <<links_file, entry, runs, session, disk, all_urls, attempted,
                 doneAtReconcile, hadProgress, provAtStart, orphan>>
  /\ UNCHANGED offCrawl

\* the loop is over: summary, finally: await context.close()
Finish ==
  /\ pc = "loop"
  /\ idx > Total
  /\ pc' = "finished"
  /\ session' = "none"
  /\ orphan' = {}
  /\ UNCHANGED <<links_file, entry, runs, progress, disk, all_urls, idx, done_urls,
                 success_count, fail_count, attempted, trace, failLog,
                 doneAtReconcile, hadProgress, provAtStart>>
  /\ UNCHANGED offCrawl

\* the process dies between two steps of a run
Crash ==
  /\ pc \in InLoop \cup {"reconcile"}
  /\ pc' = "crashed"
  /\ session' = "none"
  /\ orphan' = IF pc = "mark" THEN orphan \cup {Cur.url} ELSE orphan
  /\ UNCHANGED <<links_file, entry, runs, progress, disk, all_urls, idx, done_urls,
                 success_count, fail_count, attempted, trace, failLog,
                 doneAtReconcile, hadProgress, provAtStart>>
  /\ UNCHANGED offCrawl

Next ==
  \/ scrape_user
  \/ scrape_question
  \/ Reconcile
  \/ SkipItem
  \/ Extract
  \/ Save
  \/ MarkDone
  \/ Finish
  \/ Crash

allVars == <<vars, offCrawl>>

Spec == Init /\ [][Next]_allVars

-----------------------------------------------------------------------------
(* Properties of the crawl orchestrator *)

Range(s) == {s[i] : i \in DOMAIN s}

\* a run that has passed the reconciliation step and has not crashed
Reconciled_pcs == InLoop \cup {"finished"}

\* number of work-list items the loop has reached so far
Reached == IF pc \in {"save", "mark"} THEN idx ELSE idx - 1

RECURSIVE PendingUpTo(_)
\* the positions 1..k of the work list whose URL was not in done after the
\* reconciliation step, in work-list order
PendingUpTo(k) ==
  IF k = 0 THEN <<>>
  ELSE PendingUpTo(k - 1)
       \o (IF all_urls[k].url \in doneAtReconcile THEN <<>> ELSE <<k>>)

\* positions whose extraction or artifact persistence raised
FailedPositions == {failLog[k].idx : k \in {j \in DOMAIN failLog : failLog[j].cause # "ledger"}}
LedgerWriteRaised == \E k \in DOMAIN failLog : failLog[k].cause = "ledger"

\* C1: Resume correctness.  At every point of the crawl loop the positions on
\* which extraction has been invoked are exactly the positions reached so far
\* whose URL was not in done after reconciliation, in work-list order; a run
\* that completes has reached every position.
ResumeCorrectness ==
  pc \in Reconciled_pcs =>
    /\ attempted = PendingUpTo(Reached)
    /\ pc = "finished" => Reached = Total

\* a resumed run has completed that skipped a done item and then attempted a
\* pending one
ResumedRunAttemptsPending ==
  /\ pc = "finished"
  /\ doneAtReconcile # {}
  /\ \E i \in 1..Total, j \in 1..Total :
       /\ i < j
       /\ all_urls[i].url \in doneAtReconcile
       /\ j \in Range(attempted)

ReconciliationSafety ==
  /\ (pc \in Reconciled_pcs /\ ~hadProgress /\ provAtStart # {}) =>
       doneAtReconcile = provAtStart
  /\ attempted # <<>> => pc \in Reconciled_pcs \cup {"crashed"}

\* C5: Reconciliation invariant.  After the reconciliation step done contains
\* the source URL of every document that is on disk.
ReconciliationInvariant ==
  pc \in Reconciled_pcs => provAtStart \subseteq doneAtReconcile

\* C6: Crash recovery.  A URL whose document was written when the process
\* died before the ledger write is in done in the crawl loop of every later
\* run, and extraction is not invoked on it.
CrashRecovery ==
  pc \in InLoop =>
    \A u \in orphan :
      /\ u \in done_urls
      /\ \A k \in DOMAIN attempted : all_urls[attempted[k]].url # u

PacingPlacement ==
  pc = "finished" =>
    \A i \in DOMAIN trace :
      trace[i] \in {"delay", "penalty"} =>
        /\ \E j \in 1..(i - 1) : trace[j] = "attempt"
        /\ \E j \in (i + 1)..Len(trace) : trace[j] = "attempt"

\* C9: Block classification.  The penalty delay follows a failure exactly
\* when the failure is the block signal raised by the extractor; every
\* failure is counted and the item is not marked done.
BlockClassification ==
  /\ \A k \in DOMAIN failLog :
       failLog[k].penalty <=> failLog[k].cause = "blocked"
  /\ pc \in Reconciled_pcs => fail_count = Len(failLog)
  /\ pc \in Reconciled_pcs =>
       \A i \in FailedPositions : all_urls[i].url \notin done_urls

\* C10: Session failure is fatal.  Once the browser context is lost in the
\* item loop no further item is attempted and the run does not go on to
\* complete normally.
SessionFailureIsFatal ==
  \A k \in DOMAIN failLog :
    failLog[k].cause = "session" =>
      /\ Len(attempted) = failLog[k].attempts
      /\ pc # "finished"

-----------------------------------------------------------------------------
(* The comment harvest: _fetch_comment_page and extract_comments.          *)
(* The API is the environment: it answers each request with one outcome,   *)
(* and every comment it delivers has an identity of its own.               *)

\* most requests one call of extract_comments is followed through
MaxRequests == 4

\* limit = 20: the step of offset
PageSize == 20

\* child_offset += 20
ChildPageSize == 20

\* what the fetch in the browser can do with one request
FetchOutcomes == {"ok", "http_error", "network_error", "bad_json", "evaluate_error"}

\* the outcomes the script of _fetch_comment_page turns into its fallback value
FallbackOutcomes == {"http_error", "network_error", "bad_json"}

\* bodies of root pages: the child_comment_count of each item, in order
RootShapes == {<<>>, <<0>>, <<2>>, <<0, 2>>, <<2, 0>>, <<2, 2>>, <<2, 0, 2>>}

\* bodies of child pages
ChildShapes == {<<>>, <<0>>, <<0, 0>>}

\* paging.is_end of a body; "absent": the body has no paging or no is_end
EndFlags == {"true", "false", "absent"}

\* the items of a body: shape[k] is the declared child count of the k-th item
Items(shape, first) ==
  [k \in 1..Len(shape) |-> [id |-> first + k - 1, child_comment_count |-> shape[k]]]

\* a fetch without the try / catch and the resp.ok test of the script
FetchCommentPageUnguarded(outcome, body) ==
  IF outcome # "ok"
  THEN [raised |-> TRUE, data |-> <<>>, is_end |-> "absent"]
  ELSE [raised |-> FALSE, data |-> body.data, is_end |-> body.is_end]

\* the value _fetch_comment_page returns for an outcome, or raised when
\* page.evaluate itself raises
_fetch_comment_page(outcome, body) ==
  IF outcome = "evaluate_error"
  THEN [raised |-> TRUE, data |-> <<>>, is_end |-> "absent"]
  ELSE IF outcome \in FallbackOutcomes
       THEN [raised |-> FALSE, data |-> <<>>, is_end |-> "true"]
       ELSE [raised |-> FALSE, data |-> body.data, is_end |-> body.is_end]

NoDataNever(resp) == FALSE

\* if not data.get("data"): break
NoData(resp) == resp.data = <<>>

IsEndDefaultFalse(flag) == flag = "true"

\* paging.get("is_end", True)
IsEnd(flag) == flag # "false"

HasChildrenAlways(comment) == TRUE

\* child_count > 0
HasChildren(comment) == comment.child_comment_count > 0

\* root = {..., "child_comments": []}
NewRoot(comment) == [id |-> comment.id, child_comments |-> <<>>]

PrependRoot(tree, node) == <<node>> \o tree

\* all_comments.append(root)
AppendRoot(tree, node) == Append(tree, node)

\* one record of the history of requests
Request(level, of, off, outcome, resp) ==
  [level |-> level, root |-> of, offset |-> off, outcome |-> outcome,
   data |-> resp.data, is_end |-> resp.is_end]

\* the call: all_comments = [], offset = 0
extract_comments ==
  /\ cpc = "idle"
  /\ cpc' = "root_page"
  /\ all_comments' = <<>>
  /\ offset' = 0
  /\ UNCHANGED <<child_offset, data, page_end, pos, root, requests, nextId>>
  /\ UNCHANGED offComments

\* data = await _fetch_comment_page(page, api_url); if not data.get("data"): break
FetchRootPage ==
  /\ cpc = "root_page"
  /\ Len(requests) < MaxRequests
  /\ \E outcome \in FetchOutcomes, shape \in RootShapes, flag \in EndFlags :
       /\ outcome # "ok" => shape = <<>> /\ flag = "absent"
       /\ LET body == [data |-> Items(shape, nextId), is_end |-> flag]
              resp == _fetch_comment_page(outcome, body)
          IN /\ requests' = Append(requests, Request("root", 0, offset, outcome, resp))
             /\ nextId' = IF outcome = "ok" THEN nextId + Len(shape) ELSE nextId
             /\ IF resp.raised
                THEN cpc' = "raised" /\ UNCHANGED <<data, page_end, pos>>
                ELSE IF NoData(resp)
                     THEN cpc' = "returned" /\ UNCHANGED <<data, page_end, pos>>
                     ELSE /\ cpc' = "root_item"
                          /\ data' = resp.data
                          /\ page_end' = resp.is_end
                          /\ pos' = 1
  /\ UNCHANGED <<offset, child_offset, root, all_comments>>
  /\ UNCHANGED offComments

\* for comment in data["data"]: build the root node; a root without
\* children is appended at once
BuildRoot ==
  /\ cpc = "root_item"
  /\ pos <= Len(data)
  /\ IF HasChildren(data[pos])
     THEN /\ root' = NewRoot(data[pos])
          /\ child_offset' = 0
          /\ cpc' = "child_page"
          /\ UNCHANGED <<all_comments, pos>>
     ELSE /\ all_comments' = AppendRoot(all_comments, NewRoot(data[pos]))
          /\ pos' = pos + 1
          /\ root' = NoRoot
          /\ UNCHANGED <<cpc, child_offset>>
  /\ UNCHANGED <<offset, data, page_end, requests, nextId>>
  /\ UNCHANGED offComments

\* child_data = await _fetch_comment_page(page, child_url) and the rest of
\* one turn of the inner while loop
FetchChildPage ==
  /\ cpc = "child_page"
  /\ Len(requests) < MaxRequests
  /\ \E outcome \in FetchOutcomes, shape \in ChildShapes, flag \in EndFlags :
       /\ outcome # "ok" => shape = <<>> /\ flag = "absent"
       /\ LET body == [data |-> Items(shape, nextId), is_end |-> flag]
              resp == _fetch_comment_page(outcome, body)
              grown == [root EXCEPT !.child_comments =
                          @ \o [k \in DOMAIN resp.data |-> resp.data[k].id]]
          IN /\ requests' = Append(requests,
                               Request("child", root.id, child_offset, outcome, resp))
             /\ nextId' = IF outcome = "ok" THEN nextId + Len(shape) ELSE nextId
             /\ IF resp.raised
                THEN /\ cpc' = "raised"
                     /\ UNCHANGED <<root, child_offset, all_comments, pos>>
                ELSE IF NoData(resp) \/ IsEnd(resp.is_end)
                     THEN \* break, then all_comments.append(root)
                          /\ all_comments' = AppendRoot(all_comments, grown)
                          /\ root' = NoRoot
                          /\ pos' = pos + 1
                          /\ cpc' = "root_item"
                          /\ UNCHANGED child_offset
                     ELSE /\ root' = grown
                          /\ child_offset' = child_offset + ChildPageSize
                          /\ UNCHANGED <<cpc, all_comments, pos>>
  /\ UNCHANGED <<offset, data, page_end>>
  /\ UNCHANGED offComments

\* after the for loop: paging = data.get("paging", {}); the next root page
\* unless is_end
EndOfRootPage ==
  /\ cpc = "root_item"
  /\ pos > Len(data)
  /\ IF IsEnd(page_end)
     THEN cpc' = "returned" /\ UNCHANGED offset
     ELSE cpc' = "root_page" /\ offset' = offset + PageSize
  /\ UNCHANGED <<child_offset, data, page_end, pos, root, all_comments,
                 requests, nextId>>
  /\ UNCHANGED offComments

CommentsInit == Init

CommentsNext ==
  \/ extract_comments
  \/ FetchRootPage
  \/ BuildRoot
  \/ FetchChildPage
  \/ EndOfRootPage

SpecComments == CommentsInit /\ [][CommentsNext]_allVars

-----------------------------------------------------------------------------
(* Properties of the comment harvest *)

Last(s) == s[Len(s)]

\* the requests of the root-level page sequence, in the order they were made
RootRequests == SelectSeq(requests, LAMBDA r : r.level = "root")

\* the requests of the child-level page sequence of one root
ChildRequests(id) == SelectSeq(requests, LAMBDA r : r.level = "child" /\ r.root = id)

\* the identities of the items of the pages of a sequence, in delivery order
RECURSIVE DeliveredIds(_)
DeliveredIds(log) ==
  IF log = <<>> THEN <<>>
  ELSE DeliveredIds(SubSeq(log, 1, Len(log) - 1))
       \o [k \in DOMAIN Last(log).data |-> Last(log).data[k].id]

\* the root comments the API has delivered, as it declared them
DeliveredRoots == UNION {Range(r.data) : r \in Range(RootRequests)}

RootIds == [k \in DOMAIN all_comments |-> all_comments[k].id]

\* the roots on whose behalf a child page was requested
RootsWithChildRequests == {r.root : r \in {q \in Range(requests) : q.level = "child"}}

\* the fetch gave a value back to extract_comments
Answered(r) == r.outcome # "evaluate_error"

EmptyPage(r) == Answered(r) /\ r.data = <<>>

\* the children collected for a root: in the tree once the root is appended,
\* in root while its child sequence is running
ChildrenCollected(id) ==
  IF \E k \in DOMAIN all_comments : all_comments[k].id = id
  THEN all_comments[CHOOSE k \in DOMAIN all_comments : all_comments[k].id = id].child_comments
  ELSE IF root.id = id THEN root.child_comments ELSE <<>>

InTree(id) == \E k \in DOMAIN all_comments : all_comments[k].id = id

\* the n-th page of a sequence is empty and every page before it is
\* non-empty with is_end false
ExhaustedAt(log, n) ==
  /\ EmptyPage(log[n])
  /\ \A m \in 1..(n - 1) : log[m].data # <<>> /\ log[m].is_end = "false"

\* C11: a page sequence that delivers non-empty pages with is_end false and
\* then an empty page makes the loop collect every item of those pages once
\* and in order; the request answered by the empty page is the last request
\* of the sequence.
PaginationExhaustion ==
  /\ \A n \in DOMAIN RootRequests :
       ExhaustedAt(RootRequests, n)
         => /\ n = Len(RootRequests)
            /\ cpc = "returned"
            /\ RootIds = DeliveredIds(RootRequests)
  /\ \A id \in RootsWithChildRequests :
       \A n \in DOMAIN ChildRequests(id) :
         ExhaustedAt(ChildRequests(id), n)
           => /\ n = Len(ChildRequests(id))
              /\ InTree(id)
              /\ ChildrenCollected(id) = DeliveredIds(ChildRequests(id))

\* a root sequence and a child sequence, each of one full page and the empty
\* page
ExhaustedByEmptyPage ==
  /\ cpc = "returned"
  /\ Len(RootRequests) = 2
  /\ ExhaustedAt(RootRequests, 2)
  /\ Len(all_comments) >= 2
  /\ \E id \in RootsWithChildRequests :
       /\ Len(ChildRequests(id)) = 2
       /\ ExhaustedAt(ChildRequests(id), 2)

\* a page sequence is over: the root sequence when extract_comments has
\* returned, the child sequence of a root when the root is in the tree
RootSequenceOver == cpc = "returned"

ChildSequenceOver(id) == InTree(id)

OffsetsInSteps(log, size) == \A n \in DOMAIN log : log[n].offset = (n - 1) * size

\* a request was made after a page only if the page was non-empty and its
\* is_end was false
ContinuedOnlyAfterOpenPage(log) ==
  \A n \in 1..(Len(log) - 1) : log[n].data # <<>> /\ log[n].is_end = "false"

\* C12 as stated: the offsets are 0, page_size, 2 * page_size, ...; a sequence
\* that is over did not stop after a non-empty page unless the is_end of that
\* page was true; no request follows a page whose is_end is true.
PageContinuationAsStated ==
  /\ OffsetsInSteps(RootRequests, PageSize)
  /\ \A n \in 1..(Len(RootRequests) - 1) : RootRequests[n].is_end # "true"
  /\ RootSequenceOver /\ ~EmptyPage(Last(RootRequests))
       => Last(RootRequests).is_end = "true"
  /\ \A id \in RootsWithChildRequests :
       /\ OffsetsInSteps(ChildRequests(id), ChildPageSize)
       /\ \A n \in 1..(Len(ChildRequests(id)) - 1) : ChildRequests(id)[n].is_end # "true"
       /\ ChildSequenceOver(id) /\ ~EmptyPage(Last(ChildRequests(id)))
            => Last(ChildRequests(id)).is_end = "true"

\* C12: the offsets are 0, page_size, 2 * page_size, ...; after a non-empty
\* page the next page is requested unless the is_end of that page is true or
\* the page carries no is_end, which counts as the end; no request follows a
\* page whose is_end is true or absent.
PageContinuation ==
  /\ OffsetsInSteps(RootRequests, PageSize)
  /\ ContinuedOnlyAfterOpenPage(RootRequests)
  /\ RootSequenceOver /\ ~EmptyPage(Last(RootRequests))
       => Last(RootRequests).is_end \in {"true", "absent"}
  /\ \A id \in RootsWithChildRequests :
       /\ OffsetsInSteps(ChildRequests(id), ChildPageSize)
       /\ ContinuedOnlyAfterOpenPage(ChildRequests(id))
       /\ ChildSequenceOver(id) /\ ~EmptyPage(Last(ChildRequests(id)))
            => Last(ChildRequests(id)).is_end \in {"true", "absent"}

\* both sequences went to a second page and stopped there on a non-empty
\* page, the root sequence on one without is_end
SequencesStoppedByPaging ==
  /\ cpc = "returned"
  /\ Len(RootRequests) = 2
  /\ Last(RootRequests).data # <<>>
  /\ Last(RootRequests).is_end = "absent"
  /\ \E id \in RootsWithChildRequests :
       /\ Len(ChildRequests(id)) = 2
       /\ Last(ChildRequests(id)).data # <<>>
       /\ Last(ChildRequests(id)).is_end = "true"

\* the requests that end a sequence without a page of items: an empty body,
\* a body that cannot be parsed, a failure of the transport
EndsWithoutItems(r) == r.data = <<>> /\ r.outcome \in {"ok"} \cup FallbackOutcomes

\* C13: a request answered by an empty body, an unparsable body or a
\* transport failure ends its page sequence and raises nothing: the comments
\* collected before it stay in the tree, and after a child sequence ended
\* this way the harvest goes on with the next root.
GracefulSequenceEnd ==
  /\ cpc = "raised" => Last(requests).outcome = "evaluate_error"
  /\ \A n \in DOMAIN requests :
       EndsWithoutItems(requests[n])
         => IF requests[n].level = "root"
            THEN /\ n = Len(requests)
                 /\ cpc = "returned"
                 /\ RootIds = DeliveredIds(RootRequests)
                 /\ \A id \in RootsWithChildRequests :
                      ChildrenCollected(id) = DeliveredIds(ChildRequests(id))
            ELSE LET id == requests[n].root
                 IN /\ \A m \in (n + 1)..Len(requests) :
                         requests[m].level = "root" \/ requests[m].root # id
                    /\ InTree(id)
                    /\ ChildrenCollected(id) = DeliveredIds(ChildRequests(id))
                    /\ n = Len(requests) => cpc \in {"root_item", "child_page",
                                                      "root_page", "returned"}

\* a child sequence delivered a page and then failed in the transport; its
\* root kept the children and the harvest went on to request another page
\* and to return
ChildSequenceEndedByFailure ==
  /\ cpc = "returned"
  /\ \E n \in 1..(Len(requests) - 1) :
       /\ requests[n].level = "child"
       /\ requests[n].outcome \in {"network_error", "bad_json"}
       /\ Len(ChildrenCollected(requests[n].root)) >= 1
       /\ InTree(requests[n].root)
       /\ requests[n + 1].outcome = "ok"
       /\ requests[n + 1].data # <<>>

IsPrefix(s, t) == Len(s) <= Len(t) /\ s = SubSeq(t, 1, Len(s))

\* C14: the tree holds the root comments in the order the API delivered
\* them, each once, and under each root its children in the order the API
\* delivered them; when extract_comments returns, the tree holds every
\* delivered root.
CommentOrdering ==
  /\ IsPrefix(RootIds, DeliveredIds(RootRequests))
  /\ \A k \in DOMAIN all_comments :
       all_comments[k].child_comments = DeliveredIds(ChildRequests(all_comments[k].id))
  /\ cpc = "returned" => RootIds = DeliveredIds(RootRequests)

\* two root pages and a root whose children came in two pages
TreeOfSeveralPages ==
  /\ cpc = "returned"
  /\ \E i, j \in DOMAIN RootRequests : i < j /\ RootRequests[i].data # <<>>
                                             /\ RootRequests[j].data # <<>>
  /\ \E k \in DOMAIN all_comments :
       /\ Len(all_comments[k].child_comments) >= 2
       /\ Len(ChildRequests(all_comments[k].id)) >= 2
       /\ ChildRequests(all_comments[k].id)[2].data # <<>>

\* C15: a child page is requested for a root only if the root declared a
\* child count above zero; the child requests of one root are consecutive,
\* and none of them follows a request made for a root delivered later or a
\* later root page.
NoInterleavedChildFetching ==
  /\ \A id \in RootsWithChildRequests :
       \E c \in DeliveredRoots : c.id = id /\ c.child_comment_count > 0
  /\ \A i, k \in DOMAIN requests :
       i < k /\ requests[i].level = "child" /\ requests[k].level = "child"
             /\ requests[i].root = requests[k].root
         => \A j \in i..k : requests[j].level = "child"
                            /\ requests[j].root = requests[i].root
  /\ \A i, k \in DOMAIN requests :
       i < k /\ requests[i].level = "child" /\ requests[k].level = "child"
         => requests[i].root <= requests[k].root

\* two roots of one page had their children fetched, the first in two
\* pages; the root between them declared no children
ChildrenOfTwoRootsFetched ==
  \E i \in DOMAIN requests :
    /\ i + 2 <= Len(requests)
    /\ requests[i].level = "child"
    /\ requests[i + 1].level = "child"
    /\ requests[i + 2].level = "child"
    /\ requests[i].root = requests[i + 1].root
    /\ requests[i + 1].root < requests[i + 2].root
    /\ \E c \in DeliveredRoots :
         /\ c.child_comment_count = 0
         /\ requests[i].root < c.id
         /\ c.id < requests[i + 2].root

-----------------------------------------------------------------------------
(* Link discovery: _scroll_and_collect_links and                           *)
(* collect_question_answer_links.  A string is the sequence of its         *)
(* characters.  The view is the environment: at each step it shows some of *)
(* its link elements, the end marker or not, and a content height.  The    *)
(* link elements are numbered (HrefList), and so are the links the passes  *)
(* can build from them (LinkList): collected_links and result hold a link  *)
(* by its number, LinkList gives its text.                                 *)

\* most link elements the view shows at one step
MaxVisible == 2

\* max_no_new = 10
MaxNoNew == 10

\* end_marker and no_new_count >= 3
EndMarkerStreak == 3

\* not height_changed and no_new_count >= 5
HeightStreak == 5

\* the characters of the strings below, in code point order
Alphabet ==
  <<".", "/", "1", "2", "3", "4", "5", "6", ":", "=", "?", "a", "c", "e",
    "h", "i", "l", "m", "n", "o", "p", "q", "r", "s", "t", "u", "w", "x",
    "z">>

Ord(c) == CHOOSE i \in DOMAIN Alphabet : Alphabet[i] = c

\* "https:"
HttpsColon == <<"h", "t", "t", "p", "s", ":">>

\* "https://www.zhihu.com"
ZhihuOrigin ==
  <<"h", "t", "t", "p", "s", ":", "/", "/", "w", "w", "w", ".", "z", "h",
    "i", "h", "u", ".", "c", "o", "m">>

\* "http"
HttpPrefix == <<"h", "t", "t", "p">>

\* the href attributes of the link elements of the view; question_id is "1"
\* "/question/1/answer/2"
HrefRootRelative ==
  <<"/", "q", "u", "e", "s", "t", "i", "o", "n", "/", "1", "/", "a", "n",
    "s", "w", "e", "r", "/", "2">>

\* "//www.zhihu.com/question/1/answer/2?utm=x": the same answer as HrefRootRelative
HrefProtocolRelative ==
  <<"/", "/", "w", "w", "w", ".", "z", "h", "i", "h", "u", ".", "c", "o",
    "m", "/", "q", "u", "e", "s", "t", "i", "o", "n", "/", "1", "/", "a",
    "n", "s", "w", "e", "r", "/", "2", "?", "u", "t", "m", "=", "x">>

\* "https://www.zhihu.com/question/1/answer/3"
HrefAbsolute ==
  <<"h", "t", "t", "p", "s", ":", "/", "/", "w", "w", "w", ".", "z", "h",
    "i", "h", "u", ".", "c", "o", "m", "/", "q", "u", "e", "s", "t", "i",
    "o", "n", "/", "1", "/", "a", "n", "s", "w", "e", "r", "/", "3">>

\* "question/1/answer/4"
HrefBare ==
  <<"q", "u", "e", "s", "t", "i", "o", "n", "/", "1", "/", "a", "n", "s",
    "w", "e", "r", "/", "4">>

\* "/people/x?r=/question/1/answer/5": a profile link whose query names an answer
HrefKeywordInQuery ==
  <<"/", "p", "e", "o", "p", "l", "e", "/", "x", "?", "r", "=", "/", "q",
    "u", "e", "s", "t", "i", "o", "n", "/", "1", "/", "a", "n", "s", "w",
    "e", "r", "/", "5">>

\* "//zhuanlan.zhihu.com/p/6"
HrefArticle ==
  <<"/", "/", "z", "h", "u", "a", "n", "l", "a", "n", ".", "z", "h", "i",
    "h", "u", ".", "c", "o", "m", "/", "p", "/", "6">>

\* an element without href
HrefEmpty == <<>>

\* the href of each link element of the view
HrefList == <<HrefRootRelative, HrefProtocolRelative, HrefAbsolute, HrefBare,
              HrefKeywordInQuery, HrefArticle, HrefEmpty>>

Elements == DOMAIN HrefList

\* ["/answer/"]
AnswerKeywords == {<<"/", "a", "n", "s", "w", "e", "r", "/">>}

\* ["zhuanlan", "/p/"]
ArticleKeywords == {<<"z", "h", "u", "a", "n", "l", "a", "n">>,
                    <<"/", "p", "/">>}

\* f"/question/{question_id}/answer/"
QuestionKeyword ==
  <<"/", "q", "u", "e", "s", "t", "i", "o", "n", "/", "1", "/", "a", "n",
    "s", "w", "e", "r", "/">>

Listings == {"user_answers", "user_articles", "question"}

Keywords(l) ==
  IF l = "user_answers" THEN AnswerKeywords
  ELSE IF l = "user_articles" THEN ArticleKeywords
  ELSE {QuestionKeyword}

\* the content heights the view reports
Heights == {1, 2}

\* the values of max_answers: None or an integer, negative, zero, or positive
\* and below the number of answer links of the view
Capacities == {NoCapacity} \cup {[given |-> TRUE, n |-> k] : k \in -1..2}

\* s.startswith(p)
StartsWith(str, p) == Len(str) >= Len(p) /\ SubSeq(str, 1, Len(p)) = p

\* p in s
Contains(str, p) ==
  \E i \in 1..(Len(str) - Len(p) + 1) : SubSeq(str, i, i + Len(p) - 1) = p

\* s.split("?")[0]
BeforeQuery(str) ==
  IF \E i \in DOMAIN str : str[i] = "?"
  THEN SubSeq(str, 1, (CHOOSE i \in DOMAIN str :
                         str[i] = "?" /\ \A j \in 1..(i - 1) : str[j] # "?") - 1)
  ELSE str

\* the three startswith branches
Absolute(href) ==
  IF StartsWith(href, <<"/", "/">>) THEN HttpsColon \o href
  ELSE IF StartsWith(href, <<"/">>) THEN ZhihuOrigin \o href
  ELSE IF ~StartsWith(href, HttpPrefix) THEN ZhihuOrigin \o <<"/">> \o href
  ELSE href

\* the body of the for loop for one href: if href, make absolute, keep on a
\* keyword, cut the query; the set of the links appended
Appended(href, keywords) ==
  IF href # <<>> /\ \E kw \in keywords : Contains(Absolute(href), kw)
  THEN {BeforeQuery(Absolute(href))}
  ELSE {}

\* every link some listing can collect
AllLinks == UNION {Appended(HrefList[e], Keywords(l)) : l \in Listings, e \in Elements}

RECURSIVE Enumerated(_)
Enumerated(S) ==
  IF S = {} THEN <<>>
  ELSE LET x == CHOOSE y \in S : TRUE IN <<x>> \o Enumerated(S \ {x})

\* the text of each link
LinkList == Enumerated(AllLinks)

Links == DOMAIN LinkList

LinkId(str) == CHOOSE i \in Links : LinkList[i] = str

\* the links appended for each element on each listing
KeptLink ==
  [l \in Listings |->
     [e \in Elements |-> {LinkId(str) : str \in Appended(HrefList[e], Keywords(l))}]]

\* links of one step
LinksOf(visible, l) == UNION {KeptLink[l][e] : e \in visible}

\* the elements the selector of each listing can match: the h2 links of the
\* items on a user listing, a[href*="/answer/"] on a question page
View ==
  [l \in Listings |->
     IF l = "question"
     THEN {e \in Elements :
             Contains(HrefList[e], <<"/", "a", "n", "s", "w", "e", "r", "/">>)}
     ELSE Elements]

\* comparison of two strings by code points
RECURSIVE LexLess(_, _)
LexLess(a, b) ==
  IF a = <<>> THEN b # <<>>
  ELSE IF b = <<>> THEN FALSE
  ELSE IF a[1] # b[1] THEN Ord(a[1]) < Ord(b[1])
  ELSE LexLess(Tail(a), Tail(b))

\* the links that come after a link in the order of the strings
After == [a \in Links |-> {b \in Links : LexLess(LinkList[a], LinkList[b])}]

\* the links from the largest down
RECURSIVE Descending(_)
Descending(links) ==
  IF links = {} THEN <<>>
  ELSE LET m == CHOOSE x \in links : \A y \in links \ {x} : x \in After[y]
       IN <<m>> \o Descending(links \ {m})

\* sorted(collected_links)
RECURSIVE Sorted(_)
Sorted(links) ==
  IF links = {} THEN <<>>
  ELSE LET m == CHOOSE x \in links : links \ {x} \subseteq After[x]
       IN <<m>> \o Sorted(links \ {m})

\* the step forgets what was collected before
OnlyThisStep(collected, links) == links

\* collected_links.update(links)
Merge(collected, links) == collected \cup links

\* the streak is never counted
StreakStaysZero(streak, new_count) == 0

\* if new_count == 0: no_new_count += 1 else: no_new_count = 0
StreakAfter(streak, new_count) == IF new_count = 0 THEN streak + 1 ELSE 0

\* the truth value of max_answers in "if max_answers"
Truthy(cap) == cap.given /\ cap.n # 0

\* max_answers and len(collected_links) >= max_answers
CapacityStop(cap, links) == Truthy(cap) /\ Cardinality(links) >= cap.n

\* end_marker and no_new_count >= 3
EndMarkerStop(end_marker, streak) == end_marker /\ streak >= EndMarkerStreak

\* not height_changed and no_new_count >= 5
HeightStop(height, prev_height, streak) == height = prev_height /\ streak >= HeightStreak

\* while no_new_count < max_no_new
KeepsScrolling(streak) == streak < MaxNoNew

\* result[:n]
Slice(list, n) ==
  IF n >= 0 THEN SubSeq(list, 1, IF n < Len(list) THEN n ELSE Len(list))
  ELSE SubSeq(list, 1, Len(list) + n)

\* return sorted(collected_links), cut to max_answers in collect_question_answer_links
Returned(cap, links) ==
  IF Truthy(cap) THEN Slice(Sorted(links), cap.n) ELSE Sorted(links)

\* the entry of a pass: page.goto, then the locals of the loop
StartPass(l, cap) ==
  /\ dpc = "idle"
  /\ listing' = l
  /\ max_answers' = cap
  /\ \/ dpc' = "loop"
     \/ \* page.goto raises
        dpc' = "raised"
  /\ collected_links' = {}
  /\ no_new_count' = 0
  /\ prev_scroll_height' = 0
  /\ UNCHANGED <<result, seen_links, last_step, signals_fired>>
  /\ UNCHANGED offDiscovery

\* collect_user_answers -> _scroll_and_collect_links(..., ["/answer/"])
collect_user_answers == StartPass("user_answers", NoCapacity)

\* collect_user_articles -> _scroll_and_collect_links(..., ["zhuanlan", "/p/"])
collect_user_articles == StartPass("user_articles", NoCapacity)

collect_question_answer_links == \E cap \in Capacities : StartPass("question", cap)

\* one turn of the while loop, from query_selector_all to the test of the
\* while condition after the scroll; with_capacity: the loop has the test of
\* max_answers
ScrollStep(with_capacity) ==
  /\ dpc = "loop"
  /\ \E visible \in SUBSET View[listing], end_marker \in BOOLEAN, height \in Heights :
       /\ Cardinality(visible) <= MaxVisible
       /\ LET links == LinksOf(visible, listing)
              merged == Merge(collected_links, links)
              new_count == Cardinality(merged) - Cardinality(collected_links)
              streak == StreakAfter(no_new_count, new_count)
              by == IF with_capacity /\ CapacityStop(max_answers, merged) THEN "capacity"
                    ELSE IF EndMarkerStop(end_marker, streak) THEN "end_marker"
                    ELSE IF HeightStop(height, prev_scroll_height, streak) THEN "height"
                    ELSE IF ~KeepsScrolling(streak) THEN "ceiling"
                    ELSE "none"
          IN \/ /\ collected_links' = merged
                /\ no_new_count' = streak
                /\ prev_scroll_height' = IF by \in {"capacity", "end_marker"}
                                         THEN prev_scroll_height ELSE height
                /\ dpc' = IF by = "none" THEN "loop" ELSE "returned"
                /\ result' = IF by = "none" THEN <<>> ELSE Returned(max_answers, merged)
                /\ seen_links' = seen_links \cup links
                /\ last_step' = [kept |-> Cardinality(links),
                                 known_only |-> links \subseteq collected_links,
                                 new_count |-> new_count,
                                 incremented |-> streak = no_new_count + 1,
                                 end_marker |-> end_marker,
                                 height_same |-> height = prev_scroll_height,
                                 stopped_by |-> by,
                                 element_failed |-> FALSE, others |-> {}]
                /\ signals_fired' = (signals_fired \/ end_marker
                                     \/ height = prev_scroll_height)
             \/ \* query_selector_all or evaluate raises
                /\ visible = {} /\ ~end_marker /\ height = 1
                /\ dpc' = "raised"
                /\ UNCHANGED <<collected_links, no_new_count, prev_scroll_height,
                               result, seen_links, last_step, signals_fired>>
             \/ \* el.get_attribute raises for one element of the for loop:
                \* nothing catches it, the links list of this step is dropped
                /\ ~end_marker /\ height = 1
                /\ \E el \in visible :
                     last_step' = [NoStep EXCEPT
                                     !.element_failed = TRUE,
                                     !.others = LinksOf(visible \ {el}, listing)]
                /\ dpc' = "raised"
                /\ UNCHANGED <<collected_links, no_new_count, prev_scroll_height,
                               result, seen_links, signals_fired>>
  /\ UNCHANGED <<listing, max_answers>>
  /\ UNCHANGED offDiscovery

\* the loop of _scroll_and_collect_links
_scroll_and_collect_links ==
  /\ listing \in {"user_answers", "user_articles"}
  /\ ScrollStep(FALSE)

\* the loop of collect_question_answer_links
QuestionScrollStep ==
  /\ listing = "question"
  /\ ScrollStep(TRUE)

DiscoveryNext ==
  \/ collect_user_answers
  \/ collect_user_articles
  \/ collect_question_answer_links
  \/ _scroll_and_collect_links
  \/ QuestionScrollStep

SpecDiscovery == Init /\ [][DiscoveryNext]_allVars

-----------------------------------------------------------------------------
(* Properties of link discovery *)

PassOver == dpc \in {"returned", "raised"}

\* a step of the loop has been completed in this pass
StepTaken == dpc \in {"loop", "returned"} /\ last_step # NoStep

\* an upper bound of the number of steps the pass can still perform: the
\* steps to the ceiling of the streak, and a full streak more for every link
\* of the view not yet collected
StepsLeft ==
  IF dpc # "loop" THEN 0
  ELSE 1 + (MaxNoNew - no_new_count)
         + MaxNoNew * (Cardinality(Links) - Cardinality(collected_links))

\* C16: over a view with finitely many links the loop terminates: a step is
\* performed only while the streak is below 10, and every step performed
\* lowers StepsLeft, a natural number; neither needs the end marker or a
\* stable height.
DiscoveryTermination ==
  [][dpc = "loop" => /\ no_new_count < MaxNoNew
                     /\ StepsLeft' < StepsLeft
                     /\ StepsLeft' >= 0]_allVars

\* a pass that collected links and was ended by the ceiling alone: no step
\* saw the end marker, and the height changed at every step
EndedByCeilingAlone ==
  /\ dpc = "returned"
  /\ last_step.stopped_by = "ceiling"
  /\ no_new_count = MaxNoNew
  /\ ~signals_fired
  /\ Cardinality(collected_links) >= 2

\* the target capacity is reached
CapacityReached ==
  listing = "question" /\ max_answers.given
  /\ Cardinality(collected_links) >= max_answers.n

\* the condition that stops the loop after the last step, (a) to (d) in order
StopCondition ==
  IF CapacityReached THEN "capacity"
  ELSE IF last_step.end_marker /\ no_new_count >= EndMarkerStreak THEN "end_marker"
  ELSE IF last_step.height_same /\ no_new_count >= HeightStreak THEN "height"
  ELSE IF no_new_count >= MaxNoNew THEN "ceiling"
  ELSE "none"

\* C17: after a step the streak is 0 if the step added a link and one more
\* than before otherwise; the loop stops after the step exactly when one of
\* (a) capacity reached, (b) end marker and streak >= 3, (c) height as at the
\* previous step and streak >= 5, (d) streak >= 10 holds, by the first of
\* them in this order.
TerminationPolicy ==
  StepTaken
    => /\ IF last_step.new_count > 0 THEN no_new_count = 0
          ELSE last_step.incremented
       /\ last_step.stopped_by = StopCondition
       /\ dpc = "returned" <=> StopCondition # "none"

\* C18: a step that sees only known links leaves collected as it was and
\* counts no new link; collected has as many links as distinct links were
\* seen so far.
IdempotentMerge ==
  [][dpc = "loop" /\ dpc' \in {"loop", "returned"}
       => /\ Cardinality(collected_links') = Cardinality(seen_links')
          /\ last_step'.known_only
               => collected_links' = collected_links /\ last_step'.new_count = 0
          /\ last_step'.new_count
               = Cardinality(seen_links') - Cardinality(seen_links)]_allVars

\* a step kept links, all of them known
KnownLinksSeenAgain ==
  /\ StepTaken
  /\ last_step.known_only
  /\ last_step.kept >= 2
  /\ last_step.new_count = 0
  /\ Cardinality(collected_links) >= 2

\* C19: a pass of collect_question_answer_links called with an integer
\* max_answers returns at most max_answers links, whatever the integer (no
\* link at all when it is zero or below).
TargetCapacity ==
  dpc = "returned" /\ listing = "question" /\ max_answers.given
    => Len(result) <= (IF max_answers.n > 0 THEN max_answers.n ELSE 0)

\* the number of links the result keeps of a set of n links
Retained(cap, n) ==
  IF ~cap.given \/ cap.n = 0 THEN n
  ELSE IF cap.n > 0 THEN (IF cap.n < n THEN cap.n ELSE n)
  ELSE (IF n + cap.n > 0 THEN n + cap.n ELSE 0)

\* C20: the returned list is strictly increasing in the order of the
\* strings; it holds the smallest links of collected, as many as collected
\* and the capacity determine, so the list depends on the set collected and
\* not on the order of discovery.
DeterministicResultOrder ==
  dpc = "returned"
    => /\ \A i, j \in DOMAIN result :
            i < j => LexLess(LinkList[result[i]], LinkList[result[j]])
       /\ Range(result) \subseteq collected_links
       /\ \A x \in Range(result), y \in collected_links \ Range(result) :
            LexLess(LinkList[x], LinkList[y])
       /\ Len(result) = Retained(max_answers, Cardinality(collected_links))

\* a list of several links, cut by the capacity in one pass and whole in
\* another
SeveralLinksReturned ==
  /\ dpc = "returned"
  /\ Len(result) >= 2
  /\ \/ Cardinality(collected_links) > Len(result)
     \/ Len(result) >= 4

\* ---------------------------------------------------------------------------
\* Normalization and filter of the returned links

\* "?"
QueryMark == <<"?">>

\* the links that are absolute, carry no query string and contain a keyword
\* of the listing
Normalized ==
  [l \in Listings |->
     {i \in Links :
        /\ StartsWith(LinkList[i], HttpPrefix)
        /\ ~Contains(LinkList[i], QueryMark)
        /\ \E kw \in Keywords(l) : Contains(LinkList[i], kw)}]

\* C21: every link a discovery pass has collected, and every link it returns,
\* is absolute, has no query string and satisfies the keyword predicate of the
\* listing as it stands after normalization.
NormalizationAndFilter ==
  /\ dpc \in {"loop", "returned"} => collected_links \subseteq Normalized[listing]
  /\ dpc = "returned" => Range(result) \subseteq Normalized[listing]

\* a pass returned a link that was collected from an href with a query string
QueryStrippedLinkReturned ==
  /\ dpc = "returned"
  /\ \E e \in Elements :
       /\ Contains(HrefList[e], QueryMark)
       /\ KeptLink[listing][e] # {}
       /\ KeptLink[listing][e] \subseteq Range(result)

\* ---------------------------------------------------------------------------
\* Failure of one element during a step

\* C22: when reading the link of one element fails during a step, the pass
\* goes on: it is not ended by the failure, and the links of the other
\* elements of that step are in collected.
PerElementErrorIsolation ==
  last_step.element_failed =>
    /\ dpc \in {"loop", "returned"}
    /\ last_step.others \subseteq collected_links

\* the pass was ended by the failure of one element, and the links of the
\* other elements of that step were lost
PassEndedByOneElement ==
  /\ last_step.element_failed
  /\ dpc = "raised"
  /\ last_step.others # {}
  /\ ~(last_step.others \subseteq collected_links)

-----------------------------------------------------------------------------
(* One item: extraction, comment fetch and the write of its document.      *)
(* The text of index.md is header + md + comments_md; its length is        *)
(* counted in blocks, the units in which the file is filled.               *)

\* longest body (header + md) of a document, in blocks
MaxBlocks == 2

\* most images an answer carries
MaxImages == 2

\* folder.mkdir(parents=True, exist_ok=True)
AfterMkdir(f) == [f EXCEPT !.exists = TRUE]

\* download_images: each image is fetched and written inside try/except
\* pass, so any number k of the images ends up in folder/images; a file that
\* is already there stays
AfterImages(f, k) == [f EXCEPT !.images = IF k > @ THEN k ELSE @]

\* len(header + md + comments_md) in blocks
TextBlocks(i, with) == i.blocks + (IF with THEN 1 ELSE 0)

\* md_path.write_text(text): index.md after the file was opened for writing
\* and w blocks of the text reached it
WrittenText(w, n) == [written |-> w, of |-> n]

\* an index.md that holds less than the text that was written to it
Partial(doc) == doc.written < doc.of

\* scrape_single_answer up to the call of extract_answer; the loop body of
\* scrape_user and scrape_question is the same sequence without comments
scrape_single_answer ==
  /\ apc \in {"idle", "saved", "failed"}
  /\ \E wc \in BOOLEAN, di \in BOOLEAN :
       /\ with_comments' = wc
       /\ download_img' = di
  /\ apc' = "extract"
  /\ answer_info' = NoInfo
  /\ comments' = FALSE
  /\ UNCHANGED folder
  /\ UNCHANGED offArtifact

\* info = await extract_answer(page, answer_url)
extract_answer ==
  /\ apc = "extract"
  /\ \/ \E b \in 1..MaxBlocks, i \in 0..MaxImages :
          /\ answer_info' = [blocks |-> b, images |-> i]
          /\ apc' = IF with_comments THEN "comments" ELSE "save"
     \/ \* goto, the block test or wait_for_selector raises
        /\ apc' = "failed"
        /\ UNCHANGED answer_info
  /\ UNCHANGED <<with_comments, download_img, comments, folder>>
  /\ UNCHANGED offArtifact

\* comments = await extract_comments(page, answer_id)
FetchComments ==
  /\ apc = "comments"
  /\ \/ /\ comments' = TRUE
        /\ apc' = "save"
     \/ \* building a node from an item raises
        /\ apc' = "failed"
        /\ UNCHANGED comments
  /\ UNCHANGED <<with_comments, download_img, answer_info, folder>>
  /\ UNCHANGED offArtifact

\* save_content_as_markdown, whole: mkdir, images, conversion, write_text
save_content_as_markdown ==
  /\ apc = "save"
  /\ \/ \* folder.mkdir raises
        /\ apc' = "failed"
        /\ UNCHANGED folder
     \/ \E k \in 0..(IF download_img THEN answer_info.images ELSE 0) :
          LET made == AfterImages(AfterMkdir(folder), k)
              n == TextBlocks(answer_info, comments)
          IN \/ \* the conversion raises, or index.md cannot be opened
                /\ apc' = "failed"
                /\ folder' = made
             \/ \* write_text raises after the file was opened: w of the n
                \* blocks are in index.md
                \E w \in 0..(n - 1) :
                  /\ apc' = "failed"
                  /\ folder' = [made EXCEPT !.document = WrittenText(w, n)]
             \/ /\ apc' = "saved"
                /\ folder' = [made EXCEPT !.document = WrittenText(n, n)]
  /\ UNCHANGED <<with_comments, download_img, answer_info, comments>>
  /\ UNCHANGED offArtifact

ArtifactNext ==
  \/ scrape_single_answer
  \/ extract_answer
  \/ FetchComments
  \/ save_content_as_markdown

SpecArtifact == Init /\ [][ArtifactNext]_allVars

\* C23: the document of an item is written only after its extraction, and
\* the comment fetch when comments are requested, has succeeded; an item
\* whose extraction or comment fetch fails leaves the output store as it was;
\* and the output store never holds a partially written document.
NoHalfWrittenArtifact ==
  [][/\ folder'.document # folder.document =>
          /\ answer_info # NoInfo
          /\ with_comments => comments
     /\ (apc \in {"extract", "comments"} /\ apc' = "failed") => folder' = folder
     /\ ~Partial(folder'.document)]_allVars

\* the write of index.md failed and left a shorter text than the document
PartialDocumentLeft ==
  /\ apc = "failed"
  /\ folder.document # NoDocument
  /\ Partial(folder.document)

-----------------------------------------------------------------------------
(* Properties of the crawl orchestrator: ledger, commit order, manifest *)

\* C24: within a run the in-memory done set only grows, and when the loop
\* reaches an item it skips it exactly if its URL is in done at that moment,
\* and invokes extraction on it otherwise.
AppendOnlyLedger ==
  [][/\ runs' = runs => done_urls \subseteq done_urls'
     /\ (pc = "loop" /\ idx <= Total /\ pc' # "crashed") =>
          IF Cur.url \in done_urls
          THEN /\ attempted' = attempted
               /\ trace' = Append(trace, "skip")
               /\ idx' = idx + 1
          ELSE attempted' = Append(attempted, idx)]_allVars

\* a run that skipped an item of the loaded ledger and then added another
\* item to a done set that was not empty
DoneGrewAfterSkip ==
  /\ pc = "loop"
  /\ "skip" \in Range(trace)
  /\ doneAtReconcile # {}
  /\ done_urls # doneAtReconcile
  /\ doneAtReconcile \subseteq done_urls

-----------------------------------------------------------------------------
(* The jobs of the web interface.  Each click runs _stream_logs, which     *)
(* starts a thread; the thread calls asyncio.run on one scrape function.   *)
(* Inside one job the awaited operations follow one another; nothing in    *)
(* webui.py keeps a second listener from starting its job meanwhile.       *)
(* Delays are counted in grains, the Grain-th part of a second.            *)

\* most requests one job makes
MaxJobRequests == 2

\* random.random() takes the values 0, 1/Grain, ..., (Grain - 1)/Grain
Grain == 2

\* the delay_min, delay_max a job can be started with: the defaults of the
\* forms, the defaults of the module, and --delay-min 25 with the default
\* delay_max
Windows == {[min |-> 10, max |-> 20], [min |-> 5, max |-> 10],
            [min |-> 25, max |-> 20]}

\* MIN_DELAY + random.random() * (MAX_DELAY - MIN_DELAY), in grains, for
\* random.random() = r / Grain
random_delay(r) == MIN_DELAY * Grain + r * (MAX_DELAY - MIN_DELAY)

\* 30 + random.random() * 30, in grains
extra_wait(r) == PenaltyBase * Grain + r * PenaltySpan

\* t = threading.Thread(target=_run_in_thread, args=(fn, q)); t.start()
_stream_logs(j) ==
  /\ jpc[j] \in {"idle", "finished"}
  /\ \E w \in Windows, n \in 1..MaxJobRequests :
       /\ job_window' = [job_window EXCEPT ![j] = w]
       /\ left' = [left EXCEPT ![j] = n]
  /\ jpc' = [jpc EXCEPT ![j] = "started"]
  /\ waits' = [waits EXCEPT ![j] = NoWait]
  /\ UNCHANGED <<MIN_DELAY, MAX_DELAY>>
  /\ UNCHANGED offJobs

\* the entry of scrape_user / scrape_question in the thread of the job:
\* global MIN_DELAY, MAX_DELAY; MIN_DELAY = delay_min; MAX_DELAY = delay_max,
\* then the browser context and the first navigation
EnterScrape(j) ==
  /\ jpc[j] = "started"
  /\ MIN_DELAY' = job_window[j].min
  /\ MAX_DELAY' = job_window[j].max
  /\ jpc' = [jpc EXCEPT ![j] = "request"]
  /\ UNCHANGED <<job_window, left, waits>>
  /\ UNCHANGED offJobs

\* the awaited operation of the job returns or raises; the except branch
\* sleeps extra_wait on a block message, then the loop draws the base delay
\* if idx < total
Respond(j) ==
  /\ jpc[j] = "request"
  /\ \E blocked \in BOOLEAN, r \in 0..(Grain - 1), q \in 0..(Grain - 1) :
       waits' = [waits EXCEPT ![j] =
                   [base |-> IF left[j] > 1 THEN {random_delay(r)} ELSE {},
                    penalty |-> IF blocked THEN {extra_wait(q)} ELSE {}]]
  /\ left' = [left EXCEPT ![j] = @ - 1]
  /\ jpc' = [jpc EXCEPT ![j] = "pause"]
  /\ UNCHANGED <<job_window, MIN_DELAY, MAX_DELAY>>
  /\ UNCHANGED offJobs

\* asyncio.sleep returns: the next item, or the end of the loop
Wake(j) ==
  /\ jpc[j] = "pause"
  /\ jpc' = [jpc EXCEPT ![j] = IF left[j] > 0 THEN "request" ELSE "finished"]
  /\ UNCHANGED <<job_window, left, MIN_DELAY, MAX_DELAY, waits>>
  /\ UNCHANGED offJobs

JobsNext ==
  \E j \in Jobs :
    \/ _stream_logs(j)
    \/ EnterScrape(j)
    \/ Respond(j)
    \/ Wake(j)

SpecJobs == Init /\ [][JobsNext]_allVars

\* the jobs with a network operation against the target in flight
InFlight == {j \in Jobs : jpc[j] = "request"}

\* C25: at most one network operation against the target is in flight at
\* any moment, whichever way the runs were started.
SequentialSession == Cardinality(InFlight) <= 1

\* two jobs of the web interface have a request in flight at once
TwoJobsInFlight == InFlight = Jobs

\* C26: every base delay of a run lies in the closed window delay_min ..
\* delay_max the run was started with, every penalty delay lies in 30 .. 60
\* seconds, and while a run is under way the window in force is its own.
DelayWindows ==
  \A j \in Jobs :
    /\ \A d \in waits[j].base :
         job_window[j].min * Grain <= d /\ d <= job_window[j].max * Grain
    /\ \A d \in waits[j].penalty :
         PenaltyBase * Grain <= d /\ d <= (PenaltyBase + PenaltySpan) * Grain
    /\ jpc[j] \in {"request", "pause"} =>
         MIN_DELAY = job_window[j].min /\ MAX_DELAY = job_window[j].max

\* a run alone in the process drew a base delay outside its window
DelayOutsideOwnWindow ==
  \E j \in Jobs :
    /\ \A k \in Jobs \ {j} : jpc[k] = "idle"
    /\ \E d \in waits[j].base :
         d < job_window[j].min * Grain \/ d > job_window[j].max * Grain

-----------------------------------------------------------------------------
(* The construction of one comment node.  A JSON value is a record with a  *)
(* tag t: "null", "str" with its text s, "num" with its value n, "obj"     *)
(* with the function f from its keys to their values.                      *)

Str(s) == [t |-> "str", s |-> s]
Num(n) == [t |-> "num", n |-> n]
Obj(f) == [t |-> "obj", f |-> f]

\* the keys of a comment item the construction reads
ItemKeys == {"author", "content", "child_comment_count"}

\* {}
EmptyDict == Obj([k \in {} |-> Null])

\* isinstance(d, dict)
IsDict(v) == v.t = "obj"

\* d == {}
IsEmptyDict(v) == IsDict(v) /\ DOMAIN v.f = {}

\* d.get(key, default)
Get(d, key, default) == IF key \in DOMAIN d.f THEN d.f[key] ELSE default

\* the truth value of a Python object
Truth(v) ==
  CASE v.t = "null" -> FALSE
    [] v.t = "str" -> v.s # ""
    [] v.t = "num" -> v.n # 0
    [] v.t = "obj" -> DOMAIN v.f # {}

\* a or b
OrElse(a, b) == IF Truth(a) THEN a ELSE b

RECURSIVE _nested_get(_, _)
\* for key in keys: d = d.get(key, {}) if isinstance(d, dict) else return None;
\* return d if d != {} else None
_nested_get(d, keys) ==
  IF keys = <<>> THEN (IF IsEmptyDict(d) THEN Null ELSE d)
  ELSE IF IsDict(d) THEN _nested_get(Get(d, Head(keys), EmptyDict), Tail(keys))
  ELSE Null

\* "匿名用户"
AnonymousAuthor == Str("anonymous")

\* child_count > 0 is defined between numbers only
Comparable(v) == v.t = "num"

\* a key the item does not have
Missing == [t |-> "missing"]

\* the values the key author can have; the last is a named author
AuthorValues ==
  {Null, Str("alice"), EmptyDict,
   Obj([member |-> Null]), Obj([member |-> Str("alice")]), Obj([member |-> EmptyDict]),
   Obj([member |-> Obj([name |-> Null])]), Obj([member |-> Obj([name |-> Str("")])]),
   Obj([member |-> Obj([name |-> Str("alice")])])}

ContentValues == {Null, Str(""), Str("text")}

CountValues == {Null, Num(0), Num(2), Str("2")}

\* the JSON object with the keys that are given a value
ItemOf(a, c, n) ==
  LET val == [k \in ItemKeys |->
                CASE k = "author" -> a
                  [] k = "content" -> c
                  [] k = "child_comment_count" -> n]
  IN Obj([k \in {x \in ItemKeys : val[x].t # "missing"} |-> val[k]])

\* the items of data["data"]: objects with any of the three keys, each with
\* any of its values, and items that are not objects
RawComments ==
  {ItemOf(a, c, n) : a \in AuthorValues \cup {Missing},
                     c \in ContentValues \cup {Missing},
                     n \in CountValues \cup {Missing}}
  \cup {Null, Str("text")}

\* the body of the for loop up to the test of child_count: the root
\* dictionary, and whether an exception left the function
BuildNode(c) ==
  IF ~IsDict(c)
  THEN \* comment.get on a value that is not a dict: AttributeError
       [raised |-> TRUE, node |-> NoNode]
  ELSE LET child_count == Get(c, "child_comment_count", Num(0))
       IN IF ~Comparable(child_count)
          THEN \* child_count > 0: TypeError
               [raised |-> TRUE, node |-> NoNode]
          ELSE [raised |-> FALSE,
                node |-> [author |-> OrElse(_nested_get(c, <<"author", "member", "name">>),
                                            AnonymousAuthor),
                          content |-> Get(c, "content", Str("")),
                          has_children |-> child_count.n > 0]]

\* for comment in data["data"]
NextComment ==
  /\ npc \in {"idle", "built"}
  /\ \E c \in RawComments : raw_comment' = c
  /\ npc' = "given"
  /\ built_node' = NoNode
  /\ UNCHANGED offNode

\* root = {...}; child_count = comment.get("child_comment_count", 0);
\* if child_count > 0
MakeRoot ==
  /\ npc = "given"
  /\ LET built == BuildNode(raw_comment)
     IN /\ npc' = IF built.raised THEN "raised" ELSE "built"
        /\ built_node' = built.node
  /\ UNCHANGED raw_comment
  /\ UNCHANGED offNode

NodeNext ==
  \/ NextComment
  \/ MakeRoot

SpecNode == Init /\ [][NodeNext]_allVars

\* the item names its author: author.member.name is there
HasName(c) ==
  /\ "author" \in DOMAIN c.f
  /\ IsDict(c.f["author"])
  /\ "member" \in DOMAIN c.f["author"].f
  /\ IsDict(c.f["author"].f["member"])
  /\ "name" \in DOMAIN c.f["author"].f["member"].f

\* C27: for every comment object the construction of its node does not
\* fail, whatever optional field is missing or has an unexpected shape; an
\* item without an author name gets the anonymous author, an item without
\* content gets the empty string.
ContentShapeDefaulting ==
  (npc \in {"built", "raised"} /\ IsDict(raw_comment)) =>
    /\ npc = "built"
    /\ ~HasName(raw_comment) => built_node.author = AnonymousAuthor
    /\ "content" \notin DOMAIN raw_comment.f => built_node.content = Str("")

\* a comment object without author and content whose child_comment_count
\* is null ended extract_comments with an exception
RaisedOnNullCount ==
  /\ npc = "raised"
  /\ IsDict(raw_comment)
  /\ DOMAIN raw_comment.f = {"child_comment_count"}
  /\ raw_comment.f["child_comment_count"] = Null

\* C28: an item is committed in the order extract, persist the document,
\* insert the URL into done, write the whole ledger: the save follows a
\* returned extraction, the insertion follows a returned save of that item
\* and adds just its URL, the ledger is written in the loop only after the
\* insertion, and after an item that went through, the ledger on disk holds
\* exactly the done set.
CommitOrder ==
  [][/\ (pc' = "save" /\ pc # "save") =>
          pc = "loop" /\ attempted' = Append(attempted, idx)
     /\ (pc' = "mark" /\ pc # "mark") =>
          pc = "save" /\ Document(ExtractInfo(Cur)) \in disk'
     /\ (pc \in InLoop /\ done_urls' # done_urls) =>
          /\ pc = "mark"
          /\ Document(ExtractInfo(Cur)) \in disk
          /\ done_urls' = done_urls \cup {Cur.url}
     /\ (pc \in InLoop /\ progress' # progress) =>
          pc = "mark" /\ Cur.url \in done_urls'
     /\ (pc = "mark" /\ pc' = "loop" /\ fail_count' = fail_count) =>
          progress'.exists /\ progress'.done = done_urls']_allVars

\* a second item of a run went through: done holds two URLs added by the
\* loop and the ledger on disk holds the same set
SecondItemCommitted ==
  /\ pc = "loop"
  /\ Cardinality(done_urls \ doneAtReconcile) >= 2
  /\ fail_count = 0
  /\ progress.exists
  /\ progress.done = done_urls

\* C29: the reconciliation leaves in done exactly the union of the set
\* loaded from the progress file and the set recovered from the documents on
\* disk, and when the first item is attempted the progress file holds exactly
\* that set (a file that does not exist holds the empty set).
ReconcileIsPersistedUnion ==
  [][/\ (pc = "reconcile" /\ pc' = "loop") =>
          /\ done_urls' = LoadProgress(progress) \cup _scan_done_urls_from_disk(disk)
          /\ LoadProgress(progress') = done_urls'
     /\ (pc = "loop" /\ attempted = <<>> /\ attempted' # <<>>) =>
          /\ done_urls = doneAtReconcile
          /\ LoadProgress(progress) = doneAtReconcile
          /\ doneAtReconcile # {} => progress.exists]_allVars

\* a reconciliation that took one URL from the ledger alone and another from
\* the disk alone, and wrote both back
UnionOfLedgerAndDisk ==
  /\ pc = "loop"
  /\ idx = 1
  /\ hadProgress
  /\ \E u \in done_urls : u \notin provAtStart
  /\ \E v \in done_urls : v \in orphan
  /\ progress.exists
  /\ progress.done = done_urls

\* C30: in a run that discovered at least one item and reached its loop,
\* links.json was written before the first item and lists exactly the items
\* of the work list, each with its kind, in the order of the loop.
LinkManifest ==
  (pc \in InLoop \/ trace # <<>>) =>
    /\ all_urls # <<>>
    /\ Len(links_file) = Len(all_urls)
    /\ \A i \in DOMAIN all_urls :
         /\ links_file[i].url = all_urls[i].url
         /\ links_file[i].type = all_urls[i].type

\* a later run on the same directory discovered answers and an article and
\* attempted an item: the manifest of the run before it was replaced
ManifestOfMixedRun ==
  /\ runs = 2
  /\ attempted # <<>>
  /\ \E i, j \in DOMAIN all_urls :
       i < j /\ all_urls[i].type = "answer" /\ all_urls[j].type = "article"
  /\ links_file = all_urls

\* C31: a run whose discovery raised, or returned no item, ended without
\* attempting an item and left the progress ledger, the link manifest and the
\* artifacts on disk as they were when the run was entered; the raised
\* discovery ends the run in a state of its own, not in the summary.
DiscoveryFailureLeavesState ==
  [][pc' \in {"discovery_failed", "nothing_found"} =>
       /\ progress' = progress
       /\ links_file' = links_file
       /\ disk' = disk
       /\ attempted' = <<>>
       /\ idx' = 0
       /\ success_count' = 0
       /\ fail_count' = 0
       /\ trace' = <<>>]_allVars

\* a second run on a directory that holds a ledger, a manifest and artifacts
\* discovered nothing
EmptyDiscoveryOnUsedDirectory ==
  /\ pc = "nothing_found"
  /\ runs = 2
  /\ progress.exists
  /\ links_file # <<>>
  /\ disk # {}

\* C32: between two items of the loop success_count + fail_count is the
\* number of work-list items the loop has gone through, and at the end of
\* the run the sum is the length of the work list.
CountAccounting ==
  /\ pc = "loop" => success_count + fail_count = idx - 1
  /\ pc = "finished" => success_count + fail_count = Total

\* C33: at the end of a run every URL the run added to done has a document
\* in the output store whose provenance line names that URL, and no two
\* items of the work list that the run saved were written to the same path.
DoneImpliesArtifact ==
  pc = "finished" =>
    /\ \A u \in done_urls \ doneAtReconcile : \E d \in disk : d.url = u
    /\ \A i, j \in DOMAIN all_urls :
         (/\ i # j
          /\ all_urls[i].url \in done_urls \ doneAtReconcile
          /\ all_urls[j].url \in done_urls \ doneAtReconcile)
         => ArtifactPath(ExtractInfo(all_urls[i])) # ArtifactPath(ExtractInfo(all_urls[j]))

-----------------------------------------------------------------------------
(* The browser context of one entry point: login, scrape_user,             *)
(* scrape_question and scrape_single_answer open it with                   *)
(* create_browser_context inside "async with async_playwright()" and       *)
(* close it in the finally of the try that follows.  A failure here is     *)
(* anything that leaves the try as an exception, a cancellation included.  *)

\* most polls of the login loop, and most items of a crawl loop
MaxPolls == 3

\* the entry points that open a browser context
Entries == {"login", "scrape_user", "scrape_question", "scrape_single_answer"}

\* variant: the finally leaves the context as it is
LeftOpen(c) == c
\* await context.close()
context_close(c) == [state |-> "closed", close_calls |-> c.close_calls + 1]

\* the body is left: control goes to the finally
Leave(kind) ==
  /\ spc' = "finally"
  /\ exit_kind' = kind

\* async with async_playwright() as pw:
async_playwright(f) ==
  /\ spc \in {"idle", "returned"}
  /\ spc' = "launch"
  /\ sfn' = f
  /\ context' = NoContext
  /\ body_steps' = 0
  /\ exit_kind' = "none"
  /\ UNCHANGED offSession

\* context = await pw.chromium.launch_persistent_context(...)
launch_persistent_context ==
  /\ spc = "launch"
  /\ \/ /\ context' = [state |-> "open", close_calls |-> 0]
        /\ spc' = "init_script"
        /\ UNCHANGED exit_kind
     \/ \* the launch raises: there is no context
        /\ spc' = "exit_pw"
        /\ exit_kind' = "not_acquired"
        /\ UNCHANGED context
  /\ UNCHANGED <<sfn, body_steps>>
  /\ UNCHANGED offSession

\* await context.add_init_script(STEALTH_JS); return context
create_browser_context ==
  /\ spc = "init_script"
  /\ \/ \* the context is returned and the try is entered
        /\ spc' = "body"
        /\ UNCHANGED exit_kind
     \/ \* add_init_script raises: the caller never holds the context
        /\ spc' = "exit_pw"
        /\ exit_kind' = "not_acquired"
  /\ UNCHANGED <<sfn, context, body_steps>>
  /\ UNCHANGED offSession

\* login: page.goto of the sign-in page, then the poll of page.url
login ==
  /\ spc = "body"
  /\ sfn = "login"
  /\ \/ \* new_page, goto or a sleep raises
        /\ Leave("raised")
        /\ UNCHANGED body_steps
     \/ \* still on the sign-in page: await asyncio.sleep(2)
        /\ body_steps < MaxPolls
        /\ body_steps' = body_steps + 1
        /\ UNCHANGED <<spc, exit_kind>>
     \/ \* the URL has left the sign-in page: return True
        /\ Leave("completed")
        /\ UNCHANGED body_steps
     \/ \* the time is over: return False
        /\ body_steps = MaxPolls
        /\ Leave("completed")
        /\ UNCHANGED body_steps
  /\ UNCHANGED <<sfn, context>>
  /\ UNCHANGED offSession

\* scrape_user / scrape_question up to the loop: discovery, links.json and
\* the reconciliation of the progress
BeforeLoop ==
  /\ spc = "body"
  /\ sfn \in {"scrape_user", "scrape_question"}
  /\ \/ \* discovery, or a write before the loop, raises
        Leave("raised")
     \/ \* if not all_urls: return
        Leave("early_return")
     \/ /\ spc' = "loop"
        /\ UNCHANGED exit_kind
  /\ UNCHANGED <<sfn, context, body_steps>>
  /\ UNCHANGED offSession

\* one item of the loop, its failure caught by "except Exception" or not
CrawlLoop ==
  /\ spc = "loop"
  /\ \/ \* the item is skipped, saved, or its failure counted
        /\ body_steps < MaxPolls
        /\ body_steps' = body_steps + 1
        /\ UNCHANGED <<spc, exit_kind>>
     \/ \* a cancellation or an interrupt, which "except Exception" lets pass
        /\ Leave("raised")
        /\ UNCHANGED body_steps
     \/ \* the work list is exhausted: the summary
        /\ Leave("completed")
        /\ UNCHANGED body_steps
  /\ UNCHANGED <<sfn, context>>
  /\ UNCHANGED offSession

\* scrape_single_answer: extract_answer, then comments and save
SingleBody ==
  /\ spc = "body"
  /\ sfn = "scrape_single_answer"
  /\ \/ \* extract_answer, extract_comments or the save raises
        /\ Leave("raised")
        /\ UNCHANGED body_steps
     \/ \* the answer is extracted
        /\ body_steps = 0
        /\ body_steps' = 1
        /\ UNCHANGED <<spc, exit_kind>>
     \/ \* the document is saved
        /\ body_steps = 1
        /\ Leave("completed")
        /\ UNCHANGED body_steps
  /\ UNCHANGED <<sfn, context>>
  /\ UNCHANGED offSession

\* finally: await context.close()
Finally ==
  /\ spc = "finally"
  /\ spc' = "exit_pw"
  /\ \/ /\ context' = context_close(context)
        /\ UNCHANGED exit_kind
     \/ \* close() itself raises: the call was made, the failure propagates
        /\ context' = [context EXCEPT !.close_calls = @ + 1]
        /\ exit_kind' = "raised"
  /\ UNCHANGED <<sfn, body_steps>>
  /\ UNCHANGED offSession

\* the end of the async with block: the driver is stopped and takes a
\* browser that is still open with it; the call returns or re-raises
ExitPlaywright ==
  /\ spc = "exit_pw"
  /\ spc' = "returned"
  /\ context' = IF context.state = "open"
                THEN [context EXCEPT !.state = "killed"]
                ELSE context
  /\ UNCHANGED <<sfn, body_steps, exit_kind>>
  /\ UNCHANGED offSession

SessionNext ==
  \/ \E f \in Entries : async_playwright(f)
  \/ launch_persistent_context
  \/ create_browser_context
  \/ login
  \/ BeforeLoop
  \/ CrawlLoop
  \/ SingleBody
  \/ Finally
  \/ ExitPlaywright

SpecSession == Init /\ [][SessionNext]_allVars

-----------------------------------------------------------------------------
(* The terminal interface (tui.py).  The handlers start_task and           *)
(* _switch_panel run on the thread of the interface, one at a time;        *)
(* _run_task runs in a worker thread and hands its last calls back to the  *)
(* interface with call_from_thread.  What the interface library does with  *)
(* a SystemExit that leaves a worker is not part of this repository: the   *)
(* application may go on taking events or end.                             *)

\* most tasks started in one session of the interface
MaxTasks == 2

\* the keys of _PANEL_MAP and of _dispatch
Keys == {"login", "scrape_user", "scrape_pins", "scrape_question", "scrape_answer", "merge"}

\* the ways a dispatched function can end: merge alone calls sys.exit
Outcomes(key) ==
  IF key = "merge" THEN {"returned", "raised", "exit"} ELSE {"returned", "raised"}

\* the workers whose thread has not ended
RunningTasks == {w \in DOMAIN workers : workers[w].pc \notin {"done", "exited"}}

\* variant: the handlers do not look at the flag
NeverBusy(flag) == FALSE
\* if self._running: notify and return
Busy(flag) == flag

\* self._running = value (the label of the button is left out)
_set_running(value) == _running' = value

\* @on(Button.Pressed, "#start_btn")
start_task ==
  /\ app_alive
  /\ last_event' = "start"
  /\ IF Busy(_running)
     THEN UNCHANGED <<_running, workers>>
     ELSE \/ \* collect_params raises: notify and return
             UNCHANGED <<_running, workers>>
          \/ \* self._set_running(True); self._run_task(self._current_key, params)
             /\ Len(workers) < MaxTasks
             /\ _set_running(TRUE)
             /\ workers' = Append(workers, [pc |-> "started", key |-> _current_key,
                                            old_stdout |-> Unset, outcome |-> "none"])
  /\ UNCHANGED <<_current_key, active_panel, sys_stdout, app_alive>>
  /\ UNCHANGED offTui

\* nav_selected -> _switch_panel(key)
_switch_panel(key) ==
  /\ app_alive
  /\ last_event' = "switch"
  /\ IF Busy(_running)
     THEN UNCHANGED <<_current_key, active_panel>>
     ELSE /\ _current_key' = key
          /\ active_panel' = key
  /\ UNCHANGED <<_running, workers, sys_stdout, app_alive>>
  /\ UNCHANGED offTui

\* _run_task: old_stdout = sys.stdout; sys.stdout = writer
_run_task(w) ==
  /\ workers[w].pc = "started"
  /\ workers' = [workers EXCEPT ![w].pc = "dispatch", ![w].old_stdout = sys_stdout]
  /\ sys_stdout' = Writer(w)
  /\ last_event' = "worker"
  /\ UNCHANGED <<_running, _current_key, active_panel, app_alive>>
  /\ UNCHANGED offTui

\* try: _dispatch(key, params): the function returns, raises, or asks the
\* process to exit
_dispatch(w) ==
  /\ workers[w].pc = "dispatch"
  /\ \E o \in Outcomes(workers[w].key) :
       workers' = [workers EXCEPT ![w].pc = "finally", ![w].outcome = o]
  /\ last_event' = "worker"
  /\ UNCHANGED <<_running, _current_key, active_panel, sys_stdout, app_alive>>
  /\ UNCHANGED offTui

\* except Exception as e: error = e; finally: sys.stdout = old_stdout.
\* SystemExit is no Exception: after the finally it leaves _run_task
RunTaskFinally(w) ==
  /\ workers[w].pc = "finally"
  /\ sys_stdout' = workers[w].old_stdout
  /\ last_event' = "worker"
  /\ IF workers[w].outcome = "exit"
     THEN /\ workers' = [workers EXCEPT ![w].pc = "exited"]
          /\ app_alive' \in BOOLEAN
     ELSE /\ workers' = [workers EXCEPT ![w].pc = "report"]
          /\ UNCHANGED app_alive
  /\ UNCHANGED <<_running, _current_key, active_panel>>
  /\ UNCHANGED offTui

\* the notification and the line of the log, then
\* self.call_from_thread(self._set_running, False)
RunTaskReport(w) ==
  /\ workers[w].pc = "report"
  /\ workers' = [workers EXCEPT ![w].pc = "done"]
  /\ _set_running(FALSE)
  /\ last_event' = "worker"
  /\ UNCHANGED <<_current_key, active_panel, sys_stdout, app_alive>>
  /\ UNCHANGED offTui

WorkerStep ==
  \E w \in DOMAIN workers :
    \/ _run_task(w)
    \/ _dispatch(w)
    \/ RunTaskFinally(w)
    \/ RunTaskReport(w)

TuiNext ==
  \/ start_task
  \/ \E key \in Keys : _switch_panel(key)
  \/ WorkerStep

SpecTui == Init /\ [][TuiNext]_allVars

\* C35: at most one task runs at any time, and a press of the start button
\* or a choice in the navigation made while the running flag is set starts
\* no task and changes neither the panel nor the current key.
TuiSingleTask ==
  [][/\ Cardinality(RunningTasks') <= 1
     /\ (_running /\ last_event' \in {"start", "switch"}) =>
          /\ workers' = workers
          /\ active_panel' = active_panel
          /\ _current_key' = _current_key
          /\ _running']_allVars

\* the start button was pressed while the second task of the session was
\* inside its dispatched function
PressedWhileRunning ==
  /\ _running
  /\ last_event = "start"
  /\ Len(workers) = 2
  /\ workers[1].pc = "done"
  /\ workers[2].pc = "dispatch"

\* the worker threads are scheduled: a worker that can take a step takes
\* one, and the dispatched function ends
SpecTuiFair == Init /\ [][TuiNext]_allVars /\ WF_allVars(WorkerStep)

\* C36: whenever a task has been started, the running flag is eventually
\* false again with sys.stdout restored, whichever way the dispatched
\* function ends: it returns, raises, or asks the process to exit.
TuiTaskCompletion ==
  _running ~> (~_running /\ sys_stdout = Terminal)

-----------------------------------------------------------------------------
(* The log streams of the web interface (webui.py).  A click runs the      *)
(* generator _stream_logs, which starts a thread on _run_in_thread and     *)
(* reads the queue of the job until the end item.  sys.stdout is one       *)
(* variable of the server process.  A print is one step: its text and its  *)
(* line end reach the stream that is sys.stdout when it is called.         *)

\* most print calls of one job
MaxPrints == 1

\* the text of the n-th print of a job, the text of its error report, and
\* the line end
Text(j, n) == [job |-> j, n |-> n]
ErrorText(j) == [job |-> j, n |-> 0]
NL == [job |-> "nl", n |-> 0]

\* the items of a queue: a line, and None
Line(text) == [kind |-> "line", text |-> text]
End == [kind |-> "end", text |-> <<>>]

\* the ways fn can end: merge alone calls sys.exit
EndsOf(j) ==
  IF j = "merge" THEN {"returned", "raised", "exit"} ELSE {"returned", "raised"}

\* variant: write keeps everything in the buffer
WriteUnsplit(st, text) == [buf |-> st.buf \o text, q |-> st.q]
RECURSIVE write(_, _)
\* _QueueWriter.write: every line end sends the buffer to the queue
write(st, text) ==
  IF text = <<>> THEN st
  ELSE IF Head(text) = NL
       THEN write([buf |-> <<>>, q |-> Append(st.q, Line(st.buf))], Tail(text))
       ELSE write([buf |-> Append(st.buf, Head(text)), q |-> st.q], Tail(text))

\* _QueueWriter.flush
flush(st) ==
  IF st.buf # <<>> THEN [buf |-> <<>>, q |-> Append(st.q, Line(st.buf))] ELSE st

\* the writer of a job as write and flush see it
WriterState(j) == [buf |-> wbuf[j], q |-> queues[j]]

\* file.write(text) on a stream: the terminal keeps nothing
WriteOn(stream, text) ==
  IF stream.kind = "writer"
  THEN LET st == write(WriterState(stream.of), text)
       IN /\ wbuf' = [wbuf EXCEPT ![stream.of] = st.buf]
          /\ queues' = [queues EXCEPT ![stream.of] = st.q]
  ELSE UNCHANGED <<wbuf, queues>>

\* file.flush() on a stream
FlushOn(stream) ==
  IF stream.kind = "writer"
  THEN LET st == flush(WriterState(stream.of))
       IN /\ wbuf' = [wbuf EXCEPT ![stream.of] = st.buf]
          /\ queues' = [queues EXCEPT ![stream.of] = st.q]
  ELSE UNCHANGED <<wbuf, queues>>

\* the jobs whose thread has been started and has not ended
Alive == {j \in Tabs : wpc[j] \notin {"idle", "ended"}}

\* btn.click -> run -> _stream_logs(fn): q = queue.Queue(); t.start()
StartStream(j) ==
  /\ wpc[j] = "idle"
  /\ wpc' = [wpc EXCEPT ![j] = "started"]
  /\ gpos' = [gpos EXCEPT ![j] = "waiting"]
  /\ overlapped' = [k \in Tabs |-> overlapped[k] \/ (Alive # {} /\ k \in Alive \cup {j})]
  /\ UNCHANGED <<web_stdout, saved_stdout, wbuf, queues, printed,
                 fn_end, taken, log_lines>>
  /\ UNCHANGED offStream

\* old_stdout = sys.stdout
SaveStdout(j) ==
  /\ wpc[j] = "started"
  /\ saved_stdout' = [saved_stdout EXCEPT ![j] = web_stdout]
  /\ wpc' = [wpc EXCEPT ![j] = "install"]
  /\ UNCHANGED <<web_stdout, wbuf, queues, printed, fn_end, gpos,
                 taken, log_lines, overlapped>>
  /\ UNCHANGED offStream

\* sys.stdout = _QueueWriter(q)
_run_in_thread(j) ==
  /\ wpc[j] = "install"
  /\ web_stdout' = _QueueWriter(j)
  /\ wpc' = [wpc EXCEPT ![j] = "fn"]
  /\ UNCHANGED <<saved_stdout, wbuf, queues, printed, fn_end, gpos,
                 taken, log_lines, overlapped>>
  /\ UNCHANGED offStream

\* fn() prints a line: the text and the line end reach the writer together
PrintLine(j) ==
  /\ wpc[j] = "fn"
  /\ printed[j] < MaxPrints
  /\ printed' = [printed EXCEPT ![j] = @ + 1]
  /\ WriteOn(web_stdout, <<Text(j, printed[j] + 1), NL>>)
  /\ UNCHANGED <<wpc, web_stdout, saved_stdout, fn_end, gpos, taken, log_lines, overlapped>>
  /\ UNCHANGED offStream

\* fn() ends: it returns, raises an Exception, or raises SystemExit, which
\* "except Exception" lets pass
FnEnds(j) ==
  /\ wpc[j] = "fn"
  /\ \E o \in EndsOf(j) :
       /\ fn_end' = [fn_end EXCEPT ![j] = o]
       /\ wpc' = [wpc EXCEPT ![j] = IF o = "raised" THEN "except" ELSE "flush"]
  /\ UNCHANGED <<web_stdout, saved_stdout, wbuf, queues, printed, gpos,
                 taken, log_lines, overlapped>>
  /\ UNCHANGED offStream

\* except Exception as e: sys.stdout.write(f"\n[ERROR] {e}\n")
ReportError(j) ==
  /\ wpc[j] = "except"
  /\ WriteOn(web_stdout, <<NL, ErrorText(j), NL>>)
  /\ wpc' = [wpc EXCEPT ![j] = "flush"]
  /\ UNCHANGED <<web_stdout, saved_stdout, printed, fn_end, gpos,
                 taken, log_lines, overlapped>>
  /\ UNCHANGED offStream

\* finally: sys.stdout.flush()
FinallyFlush(j) ==
  /\ wpc[j] = "flush"
  /\ FlushOn(web_stdout)
  /\ wpc' = [wpc EXCEPT ![j] = "restore"]
  /\ UNCHANGED <<web_stdout, saved_stdout, printed, fn_end, gpos,
                 taken, log_lines, overlapped>>
  /\ UNCHANGED offStream

\* sys.stdout = old_stdout
FinallyRestore(j) ==
  /\ wpc[j] = "restore"
  /\ web_stdout' = saved_stdout[j]
  /\ wpc' = [wpc EXCEPT ![j] = "put"]
  /\ UNCHANGED <<saved_stdout, wbuf, queues, printed, fn_end, gpos,
                 taken, log_lines, overlapped>>
  /\ UNCHANGED offStream

\* q.put(None)
PutEnd(j) ==
  /\ wpc[j] = "put"
  /\ queues' = [queues EXCEPT ![j] = Append(@, End)]
  /\ wpc' = [wpc EXCEPT ![j] = "ended"]
  /\ UNCHANGED <<web_stdout, saved_stdout, wbuf, printed, fn_end, gpos,
                 taken, log_lines, overlapped>>
  /\ UNCHANGED offStream

RECURSIVE Drain(_, _, _)
\* the loop of _stream_logs over the items it finds in the queue, from
\* position n on: a line is appended to log_lines, None breaks the loop
Drain(q, n, lines) ==
  IF n > Len(q) THEN [taken |-> n - 1, lines |-> lines, broke |-> FALSE]
  ELSE IF q[n] = End THEN [taken |-> n, lines |-> lines, broke |-> TRUE]
  ELSE Drain(q, n + 1, Append(lines, q[n].text))

\* item = q.get() for as long as the queue holds an item
QueueGet(j) ==
  /\ gpos[j] = "waiting"
  /\ taken[j] < Len(queues[j])
  /\ LET d == Drain(queues[j], taken[j] + 1, log_lines[j])
     IN /\ taken' = [taken EXCEPT ![j] = d.taken]
        /\ log_lines' = [log_lines EXCEPT ![j] = d.lines]
        /\ gpos' = [gpos EXCEPT ![j] = IF d.broke THEN "joining" ELSE "waiting"]
  /\ UNCHANGED <<wpc, web_stdout, saved_stdout, wbuf, queues, printed,
                 fn_end, overlapped>>
  /\ UNCHANGED offStream

\* t.join(); yield "\n".join(log_lines)
JoinThread(j) ==
  /\ gpos[j] = "joining"
  /\ wpc[j] = "ended"
  /\ gpos' = [gpos EXCEPT ![j] = "terminated"]
  /\ UNCHANGED <<wpc, web_stdout, saved_stdout, wbuf, queues, printed,
                 fn_end, taken, log_lines, overlapped>>
  /\ UNCHANGED offStream

\* the steps of the thread and of the generator of one job that do not
\* depend on what fn chooses to do next
JobStep(j) ==
  \/ SaveStdout(j)
  \/ _run_in_thread(j)
  \/ FnEnds(j)
  \/ ReportError(j)
  \/ FinallyFlush(j)
  \/ FinallyRestore(j)
  \/ PutEnd(j)
  \/ QueueGet(j)
  \/ JoinThread(j)

StreamNext ==
  \/ \E j \in Tabs : StartStream(j)
  \/ \E j \in Tabs : PrintLine(j)
  \/ \E j \in Tabs : JobStep(j)

SpecStream == Init /\ [][StreamNext]_allVars

\* the lines of a queue, the texts of a sequence of lines, and the number
\* of end items of a queue
IsLine(item) == item.kind = "line"
Texts(q) == LET lines == SelectSeq(q, IsLine) IN [i \in DOMAIN lines |-> lines[i].text]
Ends(q) == Cardinality({i \in DOMAIN q : q[i] = End})

\* what a job has sent to sys.stdout so far: one line per print, and after
\* an Exception the line end and the line of the error report
SentBy(j) ==
  [i \in 1..printed[j] |-> <<Text(j, i)>>]
    \o (IF fn_end[j] = "raised" /\ wpc[j] \in {"flush", "restore", "put", "ended"}
        THEN << <<>>, <<ErrorText(j)>> >>
        ELSE <<>>)

\* the state of the stream of one job
StreamInOrder(j) ==
  /\ Ends(queues[j]) = IF wpc[j] = "ended" THEN 1 ELSE 0
  /\ wpc[j] = "ended" => queues[j][Len(queues[j])] = End
  /\ ~overlapped[j] =>
       /\ Texts(queues[j]) = SentBy(j)
       /\ Len(log_lines[j]) <= Len(SentBy(j))
       /\ log_lines[j] = SubSeq(SentBy(j), 1, Len(log_lines[j]))
       /\ gpos[j] = "terminated" => wpc[j] = "ended" /\ log_lines[j] = SentBy(j)

\* how far the thread and the generator of a job have come
ThreadRank(p) ==
  CASE p = "idle" -> 0 [] p = "started" -> 1 [] p = "install" -> 2 [] p = "fn" -> 3
    [] p = "except" -> 4 [] p = "flush" -> 5 [] p = "restore" -> 6 [] p = "put" -> 7
    [] p = "ended" -> 8
GeneratorRank(p) ==
  CASE p = "idle" -> 0 [] p = "waiting" -> 1 [] p = "joining" -> 2 [] p = "terminated" -> 3
Advance(j) == ThreadRank(wpc[j]) + printed[j] + GeneratorRank(gpos[j]) + taken[j]

\* C37: whether fn returns, raises or asks the process to exit, the thread
\* puts the end item on the queue once, as the last item; for a job that no
\* other job overlaps the queue holds every line the job printed, in order,
\* and the generator has yielded all of them when it ends.  The generator
\* ends: until it has, a step of its job is possible that does not wait for
\* fn to print, and every step of a job takes the job further.
StreamTermination ==
  /\ [](\A j \in Tabs : StreamInOrder(j))
  /\ [](\A j \in Tabs : gpos[j] \in {"waiting", "joining"} => ENABLED JobStep(j))
  /\ [][/\ \A j \in Tabs : Advance(j)' >= Advance(j)
        /\ \E j \in Tabs : Advance(j)' > Advance(j)]_streamVars

\* merge asked the process to exit after a print, with no other job about,
\* and its generator ended with the line
StreamEndedAfterExit ==
  /\ fn_end["merge"] = "exit"
  /\ ~overlapped["merge"]
  /\ printed["merge"] = 1
  /\ gpos["merge"] = "terminated"
  /\ log_lines["merge"] = << <<Text("merge", 1)>> >>
  /\ queues["merge"] = <<Line(<<Text("merge", 1)>>), End>>

\* C38: when the two jobs overlap, a queue holds the text of its own job
\* only, a job that has ended has all its lines on its own queue in order,
\* and once both have ended sys.stdout is the stream the server had before
\* the first job.
StreamIsolation ==
  (\A j \in Tabs : overlapped[j]) =>
    /\ \A j \in Tabs : \A i \in DOMAIN queues[j] :
         \A k \in DOMAIN queues[j][i].text : queues[j][i].text[k].job = j
    /\ \A j \in Tabs : wpc[j] = "ended" => Texts(queues[j]) = SentBy(j)
    /\ (\A j \in Tabs : wpc[j] = "ended") => web_stdout = OriginalStdout

-----------------------------------------------------------------------------
(* merge_md.merge on a source directory.  A .md file is its path, the date *)
(* of its header (0 when the header has none), whether read_text returns   *)
(* its text, and whether the text has white space around it.  Paths are    *)
(* numbered in the order of their strings.                                 *)

\* most .md files under the source directory
MaxFiles == 3

\* the dates a header can carry; 0 is the empty string of a header without
\* a date, which sorts before every date
Dates == {0, 1, 2}

\* what a .md file holds
MdTexts == [date : Dates, readable : BOOLEAN, padded : BOOLEAN]

\* the .md file at a path
MdFile(p, t) ==
  [path |-> p, date |-> t.date, readable |-> t.readable, padded |-> t.padded]

\* the directory that holds the files t at the paths P
SourceDir(P, t) == [exists |-> TRUE, files |-> {MdFile(p, t[p]) : p \in P}]

\* sort_key_by_date: a file that cannot be read has the date of the empty text
sort_key_by_date(f) == <<IF f.readable THEN f.date ELSE 0, f.path>>
\* sort_key_by_name
sort_key_by_name(f) == <<0, f.path>>
SortKey(f, by) == IF by = "date" THEN sort_key_by_date(f) ELSE sort_key_by_name(f)
KeyBefore(k, l) == k[1] < l[1] \/ (k[1] = l[1] /\ k[2] < l[2])

RECURSIVE SortedFiles(_, _)
\* files.sort(key=...)
SortedFiles(F, by) ==
  IF F = {} THEN <<>>
  ELSE LET m == CHOOSE x \in F :
                  \A y \in F \ {x} : KeyBefore(SortKey(x, by), SortKey(y, by))
       IN <<m>> \o SortedFiles(F \ {m}, by)

\* the parts of the output: the text of a file, stripped, and sep_block
Content(f) == [kind |-> "content", path |-> f.path, padded |-> FALSE]
SepBlock == [kind |-> "sep", path |-> 0, padded |-> FALSE]

RECURSIVE Parts(_, _)
\* for i, md_file in enumerate(files): a file whose read raises is passed
\* over; otherwise its content, and sep_block when i < len(files) - 1
Parts(files, i) ==
  IF i > Len(files) THEN <<>>
  ELSE IF ~files[i].readable THEN Parts(files, i + 1)
  ELSE <<Content(files[i])>>
         \o (IF i < Len(files) THEN <<SepBlock>> ELSE <<>>)
         \o Parts(files, i + 1)

\* merge(source_dir, output_file, sort_by, ...) is called
CallMerge ==
  /\ mpc = "idle"
  /\ mpc' = "called"
  /\ \/ source_dir' = NoDirectory
     \/ \E P \in SUBSET (1..MaxFiles) : \E t \in [P -> MdTexts] :
          source_dir' = SourceDir(P, t)
  /\ sort_by' \in {"date", "name"}
  /\ merged_parts' = <<>>
  /\ reported' = 0
  /\ UNCHANGED offMerge

\* the body of merge
merge ==
  /\ mpc = "called"
  /\ IF ~source_dir.exists \/ source_dir.files = {}
     THEN \* sys.exit(1)
          /\ mpc' = "exited"
          /\ UNCHANGED <<merged_parts, reported>>
     ELSE LET files == SortedFiles(source_dir.files, sort_by)
          IN /\ merged_parts' = Parts(files, 1)
             /\ reported' = Len(files)
             /\ mpc' = "merged"
  /\ UNCHANGED <<source_dir, sort_by>>
  /\ UNCHANGED offMerge

MergeNext ==
  \/ CallMerge
  \/ merge

SpecMerge == Init /\ [][MergeNext]_allVars

\* the files of the directory that can be read, in the chosen order
Included == SelectSeq(SortedFiles(source_dir.files, sort_by), LAMBDA f : f.readable)

\* C39: the output holds the content of every readable file once, in the
\* chosen order, with sep_block between each two consecutive contents and
\* nowhere else, and the reported number of files is the number of files
\* whose content is in the output.
MergeLayout ==
  mpc = "merged" =>
    /\ Len(merged_parts) = IF Included = <<>> THEN 0 ELSE 2 * Len(Included) - 1
    /\ \A k \in DOMAIN Included : merged_parts[2 * k - 1] = Content(Included[k])
    /\ \A k \in 1..(Len(Included) - 1) : merged_parts[2 * k] = SepBlock
    /\ reported = Len(Included)

====
